---- MODULE Spec2Model ----
(***************************************************************************)
(* A model of the computational core of bristol: the primitive graph       *)
(* (src/primitives.js), the record serializer / deserializer               *)
(* (src/serialization.js) and the undo/redo history (src/history.js).      *)
(*                                                                         *)
(* Objects are kept in `heap`, a sequence indexed by allocation order; an  *)
(* index into it stands for a JavaScript object reference.  The `id` of a  *)
(* primitive is a field assigned by Primitives._initializePrimitive.       *)
(* Coordinates are integers: every free point lies on Coords \X Coords,    *)
(* for which all line-line intersections are integral, so the integer      *)
(* arithmetic below is exact.  A circle stores the square of its radius.   *)
(***************************************************************************)
EXTENDS Integers, Sequences, FiniteSets, TLC

VARIABLES
  reg,      \* the Primitives instance (and the primitive objects it made)
  hist,     \* the History instance
  inEdit,   \* TRUE while the callback of Primitives.edit is running
  applied,  \* primitives applyConstraints was called on by the last EndEdit
  editLog,  \* what the callback did between BeginEdit and EndEdit, so far
  fault,    \* the fault raised by the last call, "none" when it returned
  lastOp,   \* the last call and its outcome
  snap,     \* the scene a tryUndo found, while that undo is the last call
  saved,    \* the records and the scene of the last full serialization
  dragger,  \* the PrimitiveDragger the last tryDrag returned
  recordifyInProgress,   \* Serializer._recordifyInProgress is set
  deserializerPrimitives \* Deserializer._primitives is set

vars == <<reg, hist, inEdit, applied, editLog, fault, lastOp, snap, saved,
          dragger, recordifyInProgress, deserializerPrimitives>>

\* what the calls on the registry and the history leave alone
aside == <<dragger, recordifyInProgress, deserializerPrimitives>>

\* ------------------------------------------------------------------ bounds
\* primitives ever created in a behaviour of Spec
MaxPrims == 3
\* primitives ever created in a behaviour of SpecHistory, replays included
MaxReplay == 2
\* primitives of a scene of SpecRoundTrip
MaxScene == 6
\* primitives of a scene of SpecClosure
MaxClosure == 7
\* entries of the history log
MaxDiffs == 1
\* primitives of a scene of SpecCircle
MaxCircle == 8
\* primitives of a scene of SpecDispose
MaxDispose == 8

\* objects ever created in a behaviour of SpecEdit
MaxEdit == 7

\* objects ever created in a behaviour of SpecDrag
MaxDrag == 11

\* objects ever created in a behaviour of SpecTwoCircles
MaxTwoCircles == 8

\* objects ever created in a behaviour of SpecLineage
MaxLineage == 5
\* ids the key of a parent pair is computed for, with those at which the
\* 32-bit shift changes sign
PairIds == {1, 2, 3, 255, 256, 32767, 32768, 65534, 65535}
\* primitives of the traversed registry
MaxTraversal == 4

Coords == {0, 2}
\* the positions offered when building a scene to serialize
Positions == {p \in [x : Coords, y : Coords] : p.x = 0 \/ p.y = 0}
\* the positions offered to edits
EditPositions == {p \in Positions : p.y = 0}
\* the positions offered in a scene with a circle
GridPositions == [x : Coords, y : Coords]
\* the positions each free point of that scene is moved between, by order of
\* creation: the two points of the line, the centre and the edge point
CircleTracks ==
  <<{p \in GridPositions : p.x = 0}, {p \in GridPositions : p.x = 2},
    {p \in GridPositions : p.x = 0 /\ p.y = 0},
    {p \in GridPositions : p.y = 0}>>

\* the positions the free points of the scene of SpecDrag are dragged
\* between, by order of creation
DragTracks ==
  <<{p \in GridPositions : p.x = 0}, {p \in GridPositions : p.x = 2},
    {[x |-> 0, y |-> 2]}, {[x |-> 0, y |-> 0]},
    {[x |-> 2, y |-> 0], [x |-> 0, y |-> 2]}>>
\* the scene of two circles is laid out in tenths of a unit: the approximate
\* positions (4, 3.9), (4, -3.9) and (4, 0) handed to the intersection
ApproximatePositions ==
  {[x |-> 40, y |-> 39], [x |-> 40, y |-> -39], [x |-> 40, y |-> 0]}
\* the positions each free point of that scene is moved between, by order of
\* creation: the centre (0, 0) and the edge point of the first circle, at 5
\* or 3 units from the centre, then the centre (8, 0) and the edge point of
\* the second
TwoCircleTracks ==
  <<{[x |-> 0, y |-> 0]},
    {[x |-> 50, y |-> 0], [x |-> 30, y |-> 40], [x |-> 0, y |-> 50],
     [x |-> 30, y |-> 0]},
    {[x |-> 80, y |-> 0]},
    {[x |-> 130, y |-> 0], [x |-> 50, y |-> 40], [x |-> 80, y |-> -50],
     [x |-> 110, y |-> 0]}>>

\* the positions at which primitives are grabbed
GrabPositions == {p \in GridPositions : p.y = 0}
\* the pairs of points of that scene a line is drawn through: the point
\* apart (5) and the second point of the first line (2), each with the first
\* intersection point (9) in either order, and both intersection points
DragPairs == {<<5, 9>>, <<9, 5>>, <<2, 9>>, <<9, 2>>, <<9, 10>>}
\* the pairs a circle is drawn through, centre first: the last with two free
\* points
CirclePairs == {<<5, 9>>, <<9, 5>>, <<2, 9>>, <<5, 1>>}

\* ----------------------------------------------------------------- helpers
Max(a, b) == IF a >= b THEN a ELSE b

Range(s) == {s[i] : i \in 1..Len(s)}

Includes(s, e) == \E i \in 1..Len(s) : s[i] = e

IndexOf(s, e) == IF Includes(s, e)
                 THEN CHOOSE i \in 1..Len(s) :
                        s[i] = e /\ \A j \in 1..(i - 1) : s[j] # e
                 ELSE 0

\* Array.prototype.remove: drops the first occurrence
Remove(s, e) ==
  LET i == IndexOf(s, e)
  IN IF i = 0 THEN s ELSE SubSeq(s, 1, i - 1) \o SubSeq(s, i + 1, Len(s))

\* records (plain JavaScript objects): functions from the keys present
Has(r, k) == k \in DOMAIN r

Get(r, k, dflt) == IF k \in DOMAIN r THEN r[k] ELSE dflt

Put(r, k, v) == [q \in (DOMAIN r) \cup {k} |-> IF q = k THEN v ELSE r[q]]

\* ------------------------------------------------------------------- vec2
vec2(x, y) == [x |-> x, y |-> y]

span(A, B) == vec2(B.x - A.x, B.y - A.y)

per(u, v) == u.x * v.y - u.y * v.x

dot(u, v) == u.x * v.x + u.y * v.y

lenSq(u) == u.x * u.x + u.y * u.y

rhp(u) == vec2(u.y, -u.x)

sq(x) == x * x

distSq(A, B) == sq(A.x - B.x) + sq(A.y - B.y)

\* Geometry.lineLineIntersections; isFinite(t) fails exactly when the
\* divisor per(d0, d1) is zero (t is then an infinity or NaN)
lineLineIntersections(P0, d0, P1, d1) ==
  LET num == per(span(P0, P1), d0)
      den == per(d0, d1)
  IN IF den = 0 THEN <<>>
     ELSE <<vec2((P1.x * den + num * d1.x) \div den,
                 (P1.y * den + num * d1.y) \div den)>>

\* the largest s in lo..hi with s * s <= n, found by bisection
RECURSIVE SqrtBetween(_, _, _)
SqrtBetween(n, lo, hi) ==
  IF lo >= hi THEN lo
  ELSE LET mid == (lo + hi + 1) \div 2
       IN IF mid * mid <= n THEN SqrtBetween(n, mid, hi)
          ELSE SqrtBetween(n, lo, mid - 1)

\* Math.sqrt, rounded down to an integer; exact on the perfect squares
Sqrt(n) == SqrtBetween(n, 0, IF n < 46340 THEN n ELSE 46340)

IsSquare(n) == n >= 0 /\ Sqrt(n) * Sqrt(n) = n

\* solveQuadratic: the roots as fractions over the common divisor 2a
solveQuadratic(a, b, c) ==
  LET Roots(delta) ==
        IF delta < 0 THEN <<>>
        ELSE IF delta = 0 THEN <<[num |-> -b, den |-> 2 * a]>>
        ELSE <<[num |-> -b + Sqrt(delta), den |-> 2 * a],
               [num |-> -b - Sqrt(delta), den |-> 2 * a]>>
  IN Roots(b * b - 4 * a * c)

\* the coordinates of a point computed from a root that is not a number (a
\* division of zero by zero); no scene in exact position holds one
NaN == 1000

\* Geometry.lineCircleIntersections, with the square of the radius for r * r
lineCircleIntersections(P, d, C, rSq) ==
  LET u == span(C, P)
      Points(ts) ==
        [i \in 1..Len(ts) |->
           IF ts[i].den = 0 THEN vec2(NaN, NaN)
           ELSE vec2((P.x * ts[i].den + ts[i].num * d.x) \div ts[i].den,
                     (P.y * ts[i].den + ts[i].num * d.y) \div ts[i].den)]
  IN Points(solveQuadratic(d.x * d.x + d.y * d.y,
                           2 * (u.x * d.x + u.y * d.y),
                           (u.x * u.x + u.y * u.y) - rSq))

\* the inputs of lineCircleIntersections on which the integer arithmetic
\* above is what the floating-point code computes: a direction that is not
\* zero, a radius and a discriminant root that are integers, and roots that
\* put the points on integer coordinates
ExactLineCircle(P, d, C, rSq) ==
  LET u == span(C, P)
      a == d.x * d.x + d.y * d.y
      b == 2 * (u.x * d.x + u.y * d.y)
      c == (u.x * u.x + u.y * u.y) - rSq
      delta == b * b - 4 * a * c
  IN /\ a # 0
     /\ IsSquare(rSq)
     /\ delta >= 0 =>
          /\ IsSquare(delta)
          /\ \A sign \in {-1, 1}, k \in {d.x, d.y} :
                ((-b + sign * Sqrt(delta)) * k) % (2 * a) = 0

\* a variant of circleCircleIntersections that cuts the circle with the chord
\* through the centre of the larger circle, not through the foot point
circleCircleIntersections_chordThroughCentre(C0, rSq0, C1, rSq1) ==
  IF rSq0 >= rSq1
  THEN lineCircleIntersections(C0, rhp(span(C0, C1)), C0, rSq0)
  ELSE lineCircleIntersections(C1, rhp(span(C1, C0)), C1, rSq1)

\* Geometry.circleCircleIntersections, with the squares of the radii for
\* R * R and r * r: the chord through the foot point P = C + t * d on the
\* line of the centres, at right angles to it, cut with the larger circle.
\* For circles with one centre t is not a number and neither are the two
\* points the quadratic yields
circleCircleIntersections(C0, rSq0, C1, rSq1) ==
  LET Chord(C, RSq, d, rSq) ==
        LET dSq == lenSq(d)
            num == (dSq + RSq) - rSq
            den == 2 * dSq
        IN IF den = 0 THEN <<vec2(NaN, NaN), vec2(NaN, NaN)>>
           ELSE lineCircleIntersections(
                  vec2((C.x * den + num * d.x) \div den,
                       (C.y * den + num * d.y) \div den),
                  rhp(d), C, RSq)
  IN IF rSq0 >= rSq1 THEN Chord(C0, rSq0, span(C0, C1), rSq1)
     ELSE Chord(C1, rSq1, span(C1, C0), rSq0)

\* the inputs of circleCircleIntersections on which the integer arithmetic
\* above is what the floating-point code computes: centres apart, radii that
\* are integers, a foot point on integer coordinates and a chord in exact
\* position
ExactCircleCircle(C0, rSq0, C1, rSq1) ==
  LET Chord(C, RSq, d, rSq) ==
        LET dSq == lenSq(d)
            num == (dSq + RSq) - rSq
            den == 2 * dSq
        IN /\ den # 0
           /\ (num * d.x) % den = 0 /\ (num * d.y) % den = 0
           /\ ExactLineCircle(vec2(C.x + (num * d.x) \div den,
                                   C.y + (num * d.y) \div den),
                              rhp(d), C, RSq)
  IN /\ IsSquare(rSq0) /\ IsSquare(rSq1)
     /\ IF rSq0 >= rSq1 THEN Chord(C0, rSq0, span(C0, C1), rSq1)
        ELSE Chord(C1, rSq1, span(C1, C0), rSq0)

\* Array.prototype.indexOfMinBy over squared distances, JavaScript index
indexOfMinBy(candidates, P) ==
  IF candidates = <<>> THEN -1
  ELSE (CHOOSE i \in 1..Len(candidates) :
          /\ \A j \in 1..Len(candidates) :
               distSq(candidates[i], P) <= distSq(candidates[j], P)
          /\ \A j \in 1..(i - 1) :
               distSq(candidates[j], P) > distSq(candidates[i], P)) - 1

\* ------------------------------------------------------- primitive objects
IsPoint(o) == o.type \in {"P", "X"}

IsCurve(o) == o.type \in {"L", "O"}

Alive(r) == {h \in 1..Len(r.heap) : ~r.heap[h].isDisposed}

\* a variant of the walk of dependsOn that stops one level early
RECURSIVE DependsWalk_cutsOneLevelEarly(_, _, _, _)
DependsWalk_cutsOneLevelEarly(heap, this, descendants, i) ==
  IF i > Len(descendants) THEN FALSE
  ELSE IF descendants[i] = this THEN TRUE
  ELSE IF heap[descendants[i]].level + 1 < heap[this].level
  THEN LET RECURSIVE AddAll(_, _)
           AddAll(set, items) ==
             IF items = <<>> THEN set
             ELSE AddAll(IF Includes(set, Head(items)) THEN set
                         ELSE Append(set, Head(items)), Tail(items))
       IN DependsWalk_cutsOneLevelEarly(
            heap, this, AddAll(descendants, heap[descendants[i]].children),
            i + 1)
  ELSE DependsWalk_cutsOneLevelEarly(heap, this, descendants, i + 1)

\* Primitive.dependsOn: a walk over the children of `other`, cut where the
\* level reaches that of `this`
RECURSIVE DependsWalk(_, _, _, _)
DependsWalk(heap, this, descendants, i) ==
  IF i > Len(descendants) THEN FALSE
  ELSE IF descendants[i] = this THEN TRUE
  ELSE IF heap[descendants[i]].level < heap[this].level
  THEN LET RECURSIVE AddAll(_, _)
           AddAll(set, items) ==
             IF items = <<>> THEN set
             ELSE AddAll(IF Includes(set, Head(items)) THEN set
                         ELSE Append(set, Head(items)), Tail(items))
       IN DependsWalk(heap, this,
                      AddAll(descendants, heap[descendants[i]].children),
                      i + 1)
  ELSE DependsWalk(heap, this, descendants, i + 1)

dependsOn(heap, this, other) == DependsWalk(heap, this, <<other>>, 1)

\* a variant of the constructor that takes the level from the first parent
RECURSIVE PrimitiveCtor_levelOfFirstParent(_, _, _, _)
PrimitiveCtor_levelOfFirstParent(heap, h, parents, level) ==
  IF parents = <<>> THEN [heap |-> heap, level |-> level]
  ELSE LET p == Head(parents)
       IN PrimitiveCtor_levelOfFirstParent(
            [heap EXCEPT ![p].children = Append(@, h)], h, Tail(parents),
            IF level = 0 THEN heap[p].level + 1 ELSE level)

\* Primitive.constructor: registers `h` with each parent and computes level
RECURSIVE PrimitiveCtor(_, _, _, _)
PrimitiveCtor(heap, h, parents, level) ==
  IF parents = <<>> THEN [heap |-> heap, level |-> level]
  ELSE LET p == Head(parents)
       IN PrimitiveCtor([heap EXCEPT ![p].children = Append(@, h)], h,
                        Tail(parents), Max(level, heap[p].level + 1))

\* Primitives.intersections for two lines, for a line and a circle in
\* either order, and for two circles
Intersections(heap, h0, h1) ==
  CASE heap[h0].type = "L" /\ heap[h1].type = "L" ->
         lineLineIntersections(heap[h0].origin, heap[h0].direction,
                               heap[h1].origin, heap[h1].direction)
    [] heap[h0].type = "L" /\ heap[h1].type = "O" ->
         lineCircleIntersections(heap[h0].origin, heap[h0].direction,
                                 heap[h1].center, heap[h1].radiusSq)
    [] heap[h0].type = "O" /\ heap[h1].type = "L" ->
         lineCircleIntersections(heap[h1].origin, heap[h1].direction,
                                 heap[h0].center, heap[h0].radiusSq)
    [] heap[h0].type = "O" /\ heap[h1].type = "O" ->
         circleCircleIntersections(heap[h0].center, heap[h0].radiusSq,
                                   heap[h1].center, heap[h1].radiusSq)

\* Array.prototype.find on the hint list: the first hint for `n` candidates
FindHint(hints, n) ==
  LET ix == {i \in 1..Len(hints) : hints[i][1] = n}
  IN IF ix = {} THEN <<>>
     ELSE <<hints[CHOOSE i \in ix : \A j \in ix : i <= j]>>

\* a variant of IntersectionPointPrimitive.intersection that always picks
\* the candidate closest to the approximate position
Intersection_closestOnly(heap, h0, h1, approximatePosition, hints) ==
  LET Picked(all, index) ==
        [position |-> IF index >= 0 /\ index < Len(all)
                      THEN <<all[index + 1]>> ELSE <<>>,
         all |-> all, index |-> index, isHint |-> FALSE]
      Found(all) == Picked(all, indexOfMinBy(all, approximatePosition))
  IN Found(Intersections(heap, h0, h1))

\* IntersectionPointPrimitive.intersection
Intersection(heap, h0, h1, approximatePosition, hints) ==
  LET Picked(all, hint, index) ==
        [position |-> IF index >= 0 /\ index < Len(all)
                      THEN <<all[index + 1]>> ELSE <<>>,
         all |-> all, index |-> index, isHint |-> hint # <<>>]
      Hinted(all, hint) ==
        Picked(all, hint, IF hint # <<>> THEN hint[1][2]
                          ELSE indexOfMinBy(all, approximatePosition))
      Found(all) == Hinted(all, FindHint(hints, Len(all)))
  IN Found(Intersections(heap, h0, h1))

\* a variant of applyConstraints in which an intersection point whose
\* parents do not meet forgets its hints
ApplyConstraints_forgetsHints(heap, h) ==
  LET o == heap[h]
  IN CASE o.type = "P" -> heap
       [] o.type = "L" ->
            LET origin == heap[o.parents[1]].position
            IN [heap EXCEPT ![h].origin = origin,
                            ![h].direction =
                               span(origin, heap[o.parents[2]].position)]
       [] o.type = "O" ->
            LET center == heap[o.parents[1]].position
            IN [heap EXCEPT ![h].center = center,
                            ![h].radiusSq =
                               distSq(center, heap[o.parents[2]].position)]
       [] o.type = "X" ->
            LET Constrained(i) ==
                  IF i.position # <<>>
                  THEN [heap EXCEPT
                          ![h].position = i.position[1],
                          ![h].hints =
                             IF ~i.isHint /\ Len(i.all) > 1
                             THEN Append(@, <<Len(i.all), i.index>>)
                             ELSE @,
                          ![h].invalid = FALSE]
                  ELSE [heap EXCEPT ![h].invalid = TRUE,
                                    ![h].hints = <<>>]
            IN Constrained(Intersection(heap, o.parents[1], o.parents[2],
                                        o.position, o.hints))

\* applyConstraints of each variant
ApplyConstraints(heap, h) ==
  LET o == heap[h]
  IN CASE o.type = "P" -> heap
       [] o.type = "L" ->
            LET origin == heap[o.parents[1]].position
            IN [heap EXCEPT ![h].origin = origin,
                            ![h].direction =
                               span(origin, heap[o.parents[2]].position)]
       [] o.type = "O" ->
            LET center == heap[o.parents[1]].position
            IN [heap EXCEPT ![h].center = center,
                            ![h].radiusSq =
                               distSq(center, heap[o.parents[2]].position)]
       [] o.type = "X" ->
            LET Constrained(i) ==
                  IF i.position # <<>>
                  THEN [heap EXCEPT
                          ![h].position = i.position[1],
                          ![h].hints =
                             IF ~i.isHint /\ Len(i.all) > 1
                             THEN Append(@, <<Len(i.all), i.index>>)
                             ELSE @,
                          ![h].invalid = FALSE]
                  ELSE [heap EXCEPT ![h].invalid = TRUE]
            IN Constrained(Intersection(heap, o.parents[1], o.parents[2],
                                        o.position, o.hints))

\* a variant of _initializePrimitive that hands out the smallest id no alive
\* primitive holds
InitializePrimitive_reusesIds(r, obj) ==
  LET h == Len(r.heap) + 1
      used == {r.heap[k].id : k \in Alive(r)}
      id == CHOOSE n \in 1..(Cardinality(used) + 1) :
              n \notin used /\ \A m \in 1..(n - 1) : m \in used
      heap == Append(r.heap, [obj EXCEPT !.id = id])
  IN [r EXCEPT !.heap = ApplyConstraints(heap, h),
               !.nextPrimitiveId = @ + 1,
               !.primitives = Append(@, h)]

\* Primitives._initializePrimitive
InitializePrimitive(r, obj) ==
  LET h == Len(r.heap) + 1
      heap == Append(r.heap, [obj EXCEPT !.id = r.nextPrimitiveId])
  IN [r EXCEPT !.heap = ApplyConstraints(heap, h),
               !.nextPrimitiveId = @ + 1,
               !.primitives = Append(@, h)]

\* Primitives.createPoint
CreatePoint(r, position) ==
  InitializePrimitive(r,
    [type |-> "P", id |-> 0, parents |-> <<>>, children |-> <<>>,
     level |-> 0, isDisposed |-> FALSE, position |-> position])

\* Primitives.createLine: the constructor applies the constraints once and
\* _initializePrimitive applies them again
CreateLine(r, p0, p1) ==
  LET h == Len(r.heap) + 1
      c == PrimitiveCtor(r.heap, h, <<p0, p1>>, 0)
  IN InitializePrimitive([r EXCEPT !.heap = c.heap],
       [type |-> "L", id |-> 0, parents |-> <<p0, p1>>, children |-> <<>>,
        level |-> c.level, isDisposed |-> FALSE,
        origin |-> vec2(0, 0), direction |-> vec2(1, 0)])

\* Primitives.createCircle
CreateCircle(r, p0, p1) ==
  LET h == Len(r.heap) + 1
      c == PrimitiveCtor(r.heap, h, <<p0, p1>>, 0)
  IN InitializePrimitive([r EXCEPT !.heap = c.heap],
       [type |-> "O", id |-> 0, parents |-> <<p0, p1>>, children |-> <<>>,
        level |-> c.level, isDisposed |-> FALSE,
        center |-> vec2(0, 0), radiusSq |-> 0])

\* a variant of _primitivePairId that keeps the order of its arguments
PrimitivePairId_ordered(heap, h0, h1) ==
  heap[h0].id * 65536 + heap[h1].id

\* a variant of the key of _primitivePairId that shifts by 8 bits
primitivePairIdOf_shiftsByEight(id0, id1) ==
  IF id0 < id1 THEN id0 * 256 + id1 ELSE id1 * 256 + id0

\* id << 16 on a 32-bit signed integer, for 0 <= id < 2^16: bit 15 of id
\* becomes the sign bit
shl16(id) == IF id < 32768 THEN id * 65536 ELSE (id - 65536) * 65536

\* the key of Primitives._primitivePairId for two ids in 0..65535: the low
\* 16 bits of the shifted id are zero, so the bitwise or with the other id
\* is the sum
primitivePairIdOf(id0, id1) ==
  IF id0 < id1 THEN shl16(id0) + id1 ELSE shl16(id1) + id0

\* Primitives._primitivePairId
PrimitivePairId(heap, h0, h1) == primitivePairIdOf(heap[h0].id, heap[h1].id)

\* Map.prototype.putIfAbsent, which utils.js does not define: the value under
\* the key, after the given one was put there if the key was absent
putIfAbsent(map, key, value) ==
  [map |-> IF Has(map, key) THEN map ELSE Put(map, key, value),
   value |-> Get(map, key, value)]

\* a variant of tryGetOrCreateIntersectionPoint that, for curves without an
\* intersection, returns the first point on record for the pair
TryGetOrCreateIntersectionPoint_returnsRecorded(r, h0, h1, approximatePosition, hints) ==
  LET h == Len(r.heap) + 1
      Registered(id, put, r1) ==
        [reg |-> [r1 EXCEPT !.intersectionPoints =
                              Put(put.map, id, Append(put.value, h))],
         point |-> h, isExisting |-> FALSE]
      Constructed(id, put, c) ==
        Registered(id, put,
          InitializePrimitive([r EXCEPT !.heap = c.heap],
            [type |-> "X", id |-> 0, parents |-> <<h0, h1>>,
             children |-> <<>>, level |-> c.level, isDisposed |-> FALSE,
             position |-> approximatePosition,
             hints |-> hints, invalid |-> FALSE]))
      Matched(id, put, match) ==
        IF match # {}
        THEN [reg |-> [r EXCEPT !.intersectionPoints = put.map],
              point |-> put.value[CHOOSE k \in match :
                                    \A j \in match : k <= j],
              isExisting |-> TRUE]
        ELSE Constructed(id, put, PrimitiveCtor(r.heap, h, <<h0, h1>>, 0))
      Existing(i, id, put) ==
        Matched(id, put,
                {k \in 1..Len(put.value) :
                   r.heap[put.value[k]].position = i.position[1]})
      Intersected(i, id) ==
        IF i.position = <<>>
        THEN IF Get(r.intersectionPoints, id, <<>>) # <<>>
             THEN [reg |-> r, point |-> r.intersectionPoints[id][1],
                   isExisting |-> TRUE]
             ELSE [reg |-> r, point |-> 0, isExisting |-> FALSE]
        ELSE Existing(i, id, putIfAbsent(r.intersectionPoints, id, <<>>))
  IN Intersected(Intersection(r.heap, h0, h1, approximatePosition, hints),
                 PrimitivePairId(r.heap, h0, h1))

\* Primitives.tryGetOrCreateIntersectionPoint; `point` is 0 for undefined
TryGetOrCreateIntersectionPoint(r, h0, h1, approximatePosition, hints) ==
  LET h == Len(r.heap) + 1
      Registered(id, put, r1) ==
        [reg |-> [r1 EXCEPT !.intersectionPoints =
                              Put(put.map, id, Append(put.value, h))],
         point |-> h, isExisting |-> FALSE]
      Constructed(id, put, c) ==
        Registered(id, put,
          InitializePrimitive([r EXCEPT !.heap = c.heap],
            [type |-> "X", id |-> 0, parents |-> <<h0, h1>>,
             children |-> <<>>, level |-> c.level, isDisposed |-> FALSE,
             position |-> approximatePosition,
             hints |-> hints, invalid |-> FALSE]))
      Matched(id, put, match) ==
        IF match # {}
        THEN [reg |-> [r EXCEPT !.intersectionPoints = put.map],
              point |-> put.value[CHOOSE k \in match :
                                    \A j \in match : k <= j],
              isExisting |-> TRUE]
        ELSE Constructed(id, put, PrimitiveCtor(r.heap, h, <<h0, h1>>, 0))
      Existing(i, id, put) ==
        Matched(id, put,
                {k \in 1..Len(put.value) :
                   r.heap[put.value[k]].position = i.position[1]})
      Intersected(i, id) ==
        IF i.position = <<>>
        THEN [reg |-> r, point |-> 0, isExisting |-> FALSE]
        ELSE Existing(i, id, putIfAbsent(r.intersectionPoints, id, <<>>))
  IN Intersected(Intersection(r.heap, h0, h1, approximatePosition, hints),
                 PrimitivePairId(r.heap, h0, h1))

\* a variant of _onPrimitiveDisposal that leaves the index alone
OnPrimitiveDisposal_keepsIndex(r, h) == r

\* Primitives._onPrimitiveDisposal
OnPrimitiveDisposal(r, h) ==
  IF r.heap[h].type = "X"
  THEN LET pairId == PrimitivePairId(r.heap, r.heap[h].parents[1],
                                     r.heap[h].parents[2])
       IN IF Has(r.intersectionPoints, pairId)
          THEN LET points == Remove(r.intersectionPoints[pairId], h)
               IN IF points = <<>>
                  THEN [r EXCEPT !.intersectionPoints =
                          [k \in (DOMAIN @) \ {pairId} |-> @[k]]]
                  ELSE [r EXCEPT !.intersectionPoints[pairId] = points]
          ELSE r
  ELSE r

\* the loop of Primitives._onPrimitiveChange: a breadth-first walk of the
\* children from position i of the invalidated list; it stops with a fault
\* when it meets a primitive already reported changed
RECURSIVE Invalidate(_, _, _, _)
Invalidate(heap, changed, invalidated, i) ==
  IF i > Len(invalidated) THEN [invalidated |-> invalidated, ok |-> TRUE]
  ELSE IF Includes(changed, invalidated[i])
  THEN [invalidated |-> invalidated, ok |-> FALSE]
  ELSE LET children == heap[invalidated[i]].children
           fresh == SelectSeq(children,
                      LAMBDA c : ~Includes(invalidated, c))
           \* a child listed twice is pushed once
           dedup == [k \in 1..Len(fresh) |-> fresh[k]]
           new == SelectSeq(
                    [k \in 1..Len(dedup) |->
                       IF \E j \in 1..(k - 1) : dedup[j] = dedup[k]
                       THEN 0 ELSE dedup[k]],
                    LAMBDA c : c # 0)
       IN Invalidate(heap, changed, invalidated \o new, i + 1)

\* a variant of _onPrimitiveChange that invalidates the reported primitive
\* without its descendants
OnPrimitiveChange_skipsChildren(r, h) ==
  IF r.heap[h].isDisposed
  THEN [reg |-> OnPrimitiveDisposal(r, h), fault |-> "none"]
  ELSE IF Includes(r.changedPrimitives, h)
  THEN [reg |-> r, fault |-> "none"]
  ELSE IF Includes(r.invalidatedPrimitives, h)
  THEN [reg |-> r, fault |-> "Error"]
  ELSE [reg |-> [r EXCEPT !.invalidatedPrimitives = Append(@, h),
                          !.changedPrimitives = Append(@, h)],
        fault |-> "none"]

\* Primitives._onPrimitiveChange
OnPrimitiveChange(r, h) ==
  IF r.heap[h].isDisposed
  THEN [reg |-> OnPrimitiveDisposal(r, h), fault |-> "none"]
  ELSE IF Includes(r.changedPrimitives, h)
  THEN [reg |-> r, fault |-> "none"]
  ELSE IF Includes(r.invalidatedPrimitives, h)
  THEN [reg |-> r, fault |-> "Error"]
  ELSE LET w == Invalidate(r.heap, r.changedPrimitives,
                           Append(r.invalidatedPrimitives, h),
                           Len(r.invalidatedPrimitives) + 1)
       IN IF w.ok
          THEN [reg |-> [r EXCEPT !.invalidatedPrimitives = w.invalidated,
                                  !.changedPrimitives = Append(@, h)],
                fault |-> "none"]
          ELSE [reg |-> [r EXCEPT !.invalidatedPrimitives = w.invalidated],
                fault |-> "Error"]

\* a variant of sortByLevelAscending that leaves the list in insertion order
SortByLevelAscending_unsorted(heap, s) == s

\* Array.prototype.sort with the comparator of sortByLevelAscending: the
\* sort is stable, so equal levels keep their order
SortByLevelAscending(heap, s) ==
  LET RECURSIVE Cat(_)
      Cat(l) == IF l > Len(heap) THEN <<>>
                ELSE SelectSeq(s, LAMBDA h : heap[h].level = l) \o Cat(l + 1)
  IN Cat(0)

\* a variant of sortByLevelDescending that leaves the order as given
SortByLevelDescending_unsorted(heap, s) == s

\* Primitives.sortByLevelDescending
SortByLevelDescending(heap, s) ==
  LET RECURSIVE Cat(_)
      Cat(l) == IF l < 0 THEN <<>>
                ELSE SelectSeq(s, LAMBDA h : heap[h].level = l) \o Cat(l - 1)
  IN Cat(Len(heap))

\* the finally block of Primitives.edit: the sorted walk over the
\* invalidated list; returns the heap and the primitives it applied
RECURSIVE ApplyAll(_, _, _)
ApplyAll(heap, s, done) ==
  IF s = <<>> THEN [heap |-> heap, applied |-> done]
  ELSE IF heap[Head(s)].isDisposed THEN ApplyAll(heap, Tail(s), done)
  ELSE ApplyAll(ApplyConstraints(heap, Head(s)), Tail(s),
                Append(done, Head(s)))

\* a variant of the finally block that applies the constraints of disposed
\* primitives too
EditFinally_appliesDisposed(r) ==
  LET RECURSIVE All(_, _, _)
      All(heap, s, done) ==
        IF s = <<>> THEN [heap |-> heap, applied |-> done]
        ELSE All(ApplyConstraints(heap, Head(s)), Tail(s),
                 Append(done, Head(s)))
      Done(a) == [reg |-> [r EXCEPT !.heap = a.heap,
                                    !.invalidatedPrimitives = <<>>,
                                    !.changedPrimitives = <<>>],
                  applied |-> a.applied]
  IN Done(All(r.heap, SortByLevelAscending(r.heap, r.invalidatedPrimitives),
              <<>>))

EditFinally(r) ==
  LET a == ApplyAll(r.heap,
                    SortByLevelAscending(r.heap, r.invalidatedPrimitives),
                    <<>>)
  IN [reg |-> [r EXCEPT !.heap = a.heap,
                        !.invalidatedPrimitives = <<>>,
                        !.changedPrimitives = <<>>],
      applied |-> a.applied]

\* a variant of the loop that leaves the parents' children lists alone
Detach_keepsChild(heap, parents, h) == heap

\* the loop of Primitive.dispose over the parents
RECURSIVE Detach(_, _, _)
Detach(heap, parents, h) ==
  IF parents = <<>> THEN heap
  ELSE Detach([heap EXCEPT ![Head(parents)].children = Remove(@, h)],
              Tail(parents), h)

\* a variant of dispose without the check for children
Dispose_ignoresChildren(r, h) ==
  IF r.heap[h].isDisposed THEN [reg |-> r, fault |-> "Error"]
  ELSE LET heap == [Detach(r.heap, r.heap[h].parents, h)
                      EXCEPT ![h].isDisposed = TRUE]
       IN OnPrimitiveChange([r EXCEPT !.heap = heap], h)

\* Primitive.dispose
Dispose(r, h) ==
  IF r.heap[h].isDisposed THEN [reg |-> r, fault |-> "Error"]
  ELSE IF r.heap[h].children # <<>> THEN [reg |-> r, fault |-> "Error"]
  ELSE LET heap == [Detach(r.heap, r.heap[h].parents, h)
                      EXCEPT ![h].isDisposed = TRUE]
       IN OnPrimitiveChange([r EXCEPT !.heap = heap], h)

\* Primitives.dispose (static): the members in descending level order; the
\* first fault ends the walk
RECURSIVE DisposeSeq(_, _)
DisposeSeq(r, s) ==
  IF s = <<>> THEN [reg |-> r, fault |-> "none"]
  ELSE LET d == Dispose(r, Head(s))
       IN IF d.fault # "none" THEN d ELSE DisposeSeq(d.reg, Tail(s))

DisposeAll(r, s) == DisposeSeq(r, SortByLevelDescending(r.heap, s))

\* ------------------------------------------------------------- Serializer
\* A record is a function from the keys present to <<value>>, or to <<>>
\* for a key that is present with the value undefined.
EmptyRec == [k \in {} |-> <<>>]

Defined(rec, k) == k \in DOMAIN rec /\ rec[k] # <<>>

Val(rec, k) == rec[k][1]

Truthy(rec, k) == Defined(rec, k) /\ Val(rec, k) = TRUE

\* Serializer._recordifySingle; `records` holds the record, if any
RecordifySingle(heap, h, skipsDisposed) ==
  LET o == heap[h]
  IN IF o.isDisposed
     THEN [records |-> <<>>,
           fault |-> IF skipsDisposed THEN "none" ELSE "DeserializationError"]
     ELSE
       LET common ==
             ("id" :> <<o.id>>)
             @@ (IF Len(o.parents) > 0
                 THEN "parents" :>
                        <<[i \in 1..Len(o.parents) |-> heap[o.parents[i]].id]>>
                 ELSE EmptyRec)
             @@ (IF Get(o, "isInvalid", FALSE)
                 THEN "invalid" :> <<TRUE>> ELSE EmptyRec)
           own ==
             CASE o.type = "P" ->
                    ("type" :> <<"P">>) @@ ("position" :> <<o.position>>)
               [] o.type = "X" ->
                    ("type" :> <<"X">>) @@ ("position" :> <<o.position>>)
                    @@ (IF Len(o.hints) > 0
                        THEN "hints" :> <<o.hints>> ELSE EmptyRec)
               [] o.type = "L" -> ("type" :> <<"L">>)
               [] o.type = "O" -> ("type" :> <<"O">>)
       IN [records |-> <<common @@ own>>, fault |-> "none"]

\* Serializer.recordify over an iterable, appending to `appendTo`
RECURSIVE Recordify(_, _, _, _)
Recordify(heap, handles, skipsDisposed, appendTo) ==
  IF handles = <<>> THEN [records |-> appendTo, fault |-> "none"]
  ELSE LET one == RecordifySingle(heap, Head(handles), skipsDisposed)
       IN IF one.fault # "none"
          THEN [records |-> appendTo, fault |-> one.fault]
          ELSE Recordify(heap, Tail(handles), skipsDisposed,
                         appendTo \o one.records)

\* Object.deepEqual on the values a record holds (vec2.equals, arrays of
\* numbers, booleans, undefined): equal exactly when structurally equal
DeepEqual(a, b) == a = b

\* Serializer._diffEntries: the keys compared, those of `before` other than
\* id, type and parents, then those only in `after`
DiffKeys(before, after) ==
  ((DOMAIN before) \ {"id", "type", "parents"})
    \cup ((DOMAIN after) \ (DOMAIN before))

\* a variant of _mutualDiffSingle that pushes the partial records also when
\* no field differs
MutualDiffSingle_alwaysDifferent(before, after) ==
  LET keys == {k \in DiffKeys(before, after) :
                 ~DeepEqual(Get(before, k, <<>>), Get(after, k, <<>>))}
      id == "id" :> before["id"]
  IN [forward  |-> <<id @@ [k \in keys |-> Get(after, k, <<>>)]>>,
      backward |-> <<id @@ [k \in keys |-> Get(before, k, <<>>)]>>]

\* a variant of _mutualDiffSingle that writes the values the wrong way round
MutualDiffSingle_swapped(before, after) ==
  LET keys == {k \in DiffKeys(before, after) :
                 ~DeepEqual(Get(before, k, <<>>), Get(after, k, <<>>))}
      id == "id" :> before["id"]
  IN IF keys = {} THEN [forward |-> <<>>, backward |-> <<>>]
     ELSE [forward  |-> <<id @@ [k \in keys |-> Get(before, k, <<>>)]>>,
           backward |-> <<id @@ [k \in keys |-> Get(after, k, <<>>)]>>]

\* Serializer._mutualDiffSingle: the partial records, <<>> when none differ
MutualDiffSingle(before, after) ==
  LET keys == {k \in DiffKeys(before, after) :
                 ~DeepEqual(Get(before, k, <<>>), Get(after, k, <<>>))}
      id == "id" :> before["id"]
  IN IF keys = {} THEN [forward |-> <<>>, backward |-> <<>>]
     ELSE [forward  |-> <<id @@ [k \in keys |-> Get(after, k, <<>>)]>>,
           backward |-> <<id @@ [k \in keys |-> Get(before, k, <<>>)]>>]

\* Serializer._reverseDisposalOrder
RECURSIVE ReverseDisposalOrder(_, _, _)
ReverseDisposalOrder(records, i, j) ==
  LET IsDisposal(k) == Truthy(records[k], "disposed")
      RECURSIVE Up(_)
      Up(a) == IF a < j /\ ~IsDisposal(a) THEN Up(a + 1) ELSE a
      i1 == Up(i)
      RECURSIVE Down(_)
      Down(b) == IF i1 < b /\ ~IsDisposal(b) THEN Down(b - 1) ELSE b
      j1 == Down(j)
  IN IF ~(i < j) THEN records
     ELSE IF i1 < j1
     THEN ReverseDisposalOrder(
            [records EXCEPT ![i1] = records[j1], ![j1] = records[i1]],
            i1 + 1, j1 - 1)
     ELSE records

\* the ids of a record list, in order
Ids(records) == [i \in 1..Len(records) |-> Val(records[i], "id")]

NoDuplicates(s) == \A i, j \in 1..Len(s) : s[i] = s[j] => i = j

ById(records, id) == records[CHOOSE i \in 1..Len(records) :
                               Val(records[i], "id") = id]

\* Serializer.mutualDiff; `diff` is <<>> for undefined
MutualDiff(befores, afters) ==
  LET bIds == Ids(befores)
      aIds == Ids(afters)
      \* insertion order of the pairs map
      order == bIds \o SelectSeq(aIds, LAMBDA id : ~Includes(bIds, id))
      RECURSIVE Walk(_, _, _)
      Walk(k, fw, bw) ==
        IF k > Len(order) THEN [forward |-> fw, backward |-> bw]
        ELSE LET id == order[k]
             IN IF ~Includes(bIds, id)
                THEN Walk(k + 1, Append(fw, ById(afters, id)),
                          Append(bw, ("id" :> <<id>>)
                                       @@ ("disposed" :> <<TRUE>>)))
                ELSE IF ~Includes(aIds, id)
                THEN Walk(k + 1,
                          Append(fw, ("id" :> <<id>>)
                                       @@ ("disposed" :> <<TRUE>>)),
                          Append(bw, ById(befores, id)))
                ELSE LET d == MutualDiffSingle(ById(befores, id),
                                               ById(afters, id))
                     IN Walk(k + 1, fw \o d.forward, bw \o d.backward)
      diff == Walk(1, <<>>, <<>>)
  IN IF ~NoDuplicates(bIds) \/ ~NoDuplicates(aIds)
     THEN [diff |-> <<>>, fault |-> "ArgumentError"]
     ELSE IF diff.forward = <<>> /\ diff.backward = <<>>
     THEN [diff |-> <<>>, fault |-> "none"]
     ELSE [diff |-> <<[forward  |-> ReverseDisposalOrder(
                                      diff.forward, 1, Len(diff.forward)),
                       backward |-> ReverseDisposalOrder(
                                      diff.backward, 1, Len(diff.backward))]>>,
           fault |-> "none"]

\* ----------------------------------------------------------- Deserializer
\* Primitives.get: the live primitive with this id, 0 when there is none
PrimitivesGet(r, id) ==
  LET hs == {h \in Alive(r) : r.heap[h].id = id}
  IN IF hs = {} THEN 0 ELSE CHOOSE h \in hs : \A g \in hs : h <= g

\* FreePointPrimitive.moveTo: writes the position and notifies the registry
MoveTo(r, h, position) ==
  OnPrimitiveChange([r EXCEPT !.heap[h].position = position], h)

\* IntersectionPointPrimitive.reset: writes the fields the record carries
Reset(r, h, record) ==
  LET o == r.heap[h]
      o1 == IF Defined(record, "position")
            THEN [o EXCEPT !.position = Val(record, "position")] ELSE o
      o2 == IF Has(record, "hints")
            THEN [o1 EXCEPT !.hints = IF Defined(record, "hints")
                                      THEN Val(record, "hints") ELSE <<>>]
            ELSE o1
      o3 == IF Has(record, "invalid")
            THEN [o2 EXCEPT !.invalid = Truthy(record, "invalid")] ELSE o2
  IN [reg |-> [r EXCEPT !.heap[h] = o3], fault |-> "none"]

\* the primitives registered in Deserializer._bySerializedId, in order
BySerializedIdGet(by, id) ==
  LET ks == {k \in 1..Len(by) : by[k][1] = id}
  IN IF ks = {} THEN 0 ELSE by[CHOOSE k \in ks : TRUE][2]

\* Deserializer._resolveId; 0 when the id is unknown
ResolveId(r, by, isDiff, id) ==
  IF isDiff THEN PrimitivesGet(r, id) ELSE BySerializedIdGet(by, id)

\* Deserializer._checkParents; <<>> when the check faults
CheckParents(r, by, isDiff, record, count) ==
  IF ~Defined(record, "parents") THEN <<>>
  ELSE LET ids == Val(record, "parents")
           hs == [i \in 1..Len(ids) |-> ResolveId(r, by, isDiff, ids[i])]
       IN IF Len(ids) # count \/ Includes(hs, 0) THEN <<>> ELSE hs

\* Deserializer._derecordifySingleNew; `primitive` is 0 after a fault
DerecordifySingleNew(r, by, isDiff, record) ==
  LET Fault == [reg |-> r, primitive |-> 0, fault |-> "DeserializationError"]
      Made(r1) == [reg |-> r1, primitive |-> Len(r1.heap), fault |-> "none"]
      Got(t) == IF t.point = 0 THEN Fault
                ELSE [reg |-> t.reg, primitive |-> t.point, fault |-> "none"]
      New(type, parents) ==
        CASE type = "P" ->
               IF Has(record, "parents") \/ ~Defined(record, "position")
               THEN Fault
               ELSE Made(CreatePoint(r, Val(record, "position")))
          [] type = "X" ->
               IF parents = <<>> \/ ~Defined(record, "position")
                  \/ ~Defined(record, "hints")
               THEN Fault
               ELSE Got(TryGetOrCreateIntersectionPoint(
                          r, parents[1], parents[2],
                          Val(record, "position"), Val(record, "hints")))
          [] type = "L" ->
               IF parents = <<>> THEN Fault
               ELSE Made(CreateLine(r, parents[1], parents[2]))
          [] type = "O" ->
               IF parents = <<>> THEN Fault
               ELSE Made(CreateCircle(r, parents[1], parents[2]))
          [] OTHER -> Fault
  IN New(IF Defined(record, "type") THEN Val(record, "type") ELSE "",
         CheckParents(r, by, isDiff, record, 2))

\* Deserializer._derecordifySingleDiff
DerecordifySingleDiff(r, by, isDiff, record) ==
  LET Wrap(res) == [reg |-> res.reg,
                    fault |-> IF res.fault = "none" THEN "none"
                              ELSE "DeserializationError"]
      Diff(h) ==
        IF h = 0 THEN [reg |-> r, fault |-> "DeserializationError"]
        ELSE IF Truthy(record, "disposed") THEN Wrap(Dispose(r, h))
        ELSE IF r.heap[h].type = "P"
        THEN IF ~Defined(record, "position")
             THEN [reg |-> r, fault |-> "DeserializationError"]
             ELSE Wrap(MoveTo(r, h, Val(record, "position")))
        ELSE IF r.heap[h].type = "X" THEN Reset(r, h, record)
        ELSE [reg |-> r, fault |-> "DeserializationError"]
  IN Diff(ResolveId(r, by, isDiff, Val(record, "id")))

\* Deserializer._derecordifySingle
DerecordifySingle(r, by, isDiff, record) ==
  IF ~Defined(record, "id")
  THEN [reg |-> r, by |-> by, fault |-> "DeserializationError"]
  ELSE
    LET id == Val(record, "id")
        isNew == IF isDiff THEN Has(record, "type") ELSE Defined(record, "type")
    IN IF ~isDiff /\ ~Defined(record, "type")
       THEN [reg |-> r, by |-> by, fault |-> "DeserializationError"]
       ELSE IF isNew
       THEN IF BySerializedIdGet(by, id) # 0
            THEN [reg |-> r, by |-> by, fault |-> "DeserializationError"]
            ELSE LET New(n) ==
                       IF n.fault # "none"
                       THEN [reg |-> n.reg, by |-> by, fault |-> n.fault]
                       ELSE IF isDiff
                       THEN [reg |-> n.reg, by |-> by,
                             fault |-> IF n.reg.heap[n.primitive].id # id
                                       THEN "DeserializationError"
                                       ELSE "none"]
                       ELSE [reg |-> n.reg,
                             by |-> Append(by, <<id, n.primitive>>),
                             fault |-> "none"]
                 IN New(DerecordifySingleNew(r, by, isDiff, record))
       ELSE LET Diff(d) == [reg |-> d.reg, by |-> by, fault |-> d.fault]
            IN Diff(DerecordifySingleDiff(r, by, isDiff, record))

\* Deserializer.derecordify: the records one by one; on a fault the
\* primitives registered in _bySerializedId are disposed
RECURSIVE DerecordifyLoop(_, _, _, _)
DerecordifyLoop(r, by, isDiff, records) ==
  IF records = <<>> THEN [reg |-> r, by |-> by, fault |-> "none"]
  ELSE LET Rest(one) ==
             IF one.fault # "none" THEN one
             ELSE DerecordifyLoop(one.reg, one.by, isDiff, Tail(records))
       IN Rest(DerecordifySingle(r, by, isDiff, Head(records)))

Derecordify(r, records, isDiff) ==
  LET Caught(undo) ==
        [reg |-> undo.reg,
         fault |-> IF undo.fault = "none"
                   THEN "DeserializationError" ELSE undo.fault]
      Done(pass) ==
        IF pass.fault = "none" THEN [reg |-> pass.reg, fault |-> "none"]
        ELSE Caught(DisposeAll(pass.reg,
                               [k \in 1..Len(pass.by) |-> pass.by[k][2]]))
  IN Done(DerecordifyLoop(r, <<>>, isDiff, records))

\* ---------------------------------------------------------------- History
MapHas(heap, handles, id) == \E i \in 1..Len(handles) : heap[handles[i]].id = id

\* Map.prototype.set keyed by the primitive's id
MapSet(heap, handles, h) ==
  IF MapHas(heap, handles, heap[h].id)
  THEN [i \in 1..Len(handles) |->
          IF heap[handles[i]].id = heap[h].id THEN h ELSE handles[i]]
  ELSE Append(handles, h)

\* a variant of _beforePrimitiveChange that also tracks the primitives
\* created since the last flush
BeforePrimitiveChange_tracksNew(hs, heap, h) ==
  IF ~hs.attached \/ hs.isApplyingDiff THEN hs
  ELSE IF ~MapHas(heap, hs.trackedPrimitives, heap[h].id)
  THEN [hs EXCEPT !.trackedPrimitives = MapSet(heap, @, h),
                  !.befores = @ \o RecordifySingle(heap, h, FALSE).records]
  ELSE hs

\* History._beforePrimitiveChange, called before `h` is changed or disposed
BeforePrimitiveChange(hs, heap, h) ==
  IF ~hs.attached \/ hs.isApplyingDiff THEN hs
  ELSE IF ~MapHas(heap, hs.newPrimitives, heap[h].id)
          /\ ~MapHas(heap, hs.trackedPrimitives, heap[h].id)
  THEN [hs EXCEPT !.trackedPrimitives = MapSet(heap, @, h),
                  !.befores = @ \o RecordifySingle(heap, h, FALSE).records]
  ELSE hs

\* History._afterPrimitiveCreation, called once `h` is registered
AfterPrimitiveCreation(hs, heap, h) ==
  IF ~hs.attached \/ hs.isApplyingDiff THEN [hist |-> hs, fault |-> "none"]
  ELSE IF MapHas(heap, hs.trackedPrimitives, heap[h].id)
  THEN [hist |-> hs, fault |-> "StateError"]
  ELSE [hist |-> [hs EXCEPT !.newPrimitives = MapSet(heap, @, h)],
        fault |-> "none"]

\* a variant of flush that pushes the diff without cutting the log first
Flush_keepsRedoBranch(hs, heap) ==
  LET tracked == Recordify(heap, hs.trackedPrimitives, TRUE, <<>>)
      afters == Recordify(heap, hs.newPrimitives, TRUE, tracked.records)
      d == MutualDiff(hs.befores, afters.records)
      index == hs.latestDiffIndex + 1
  IN IF d.fault # "none" THEN [hist |-> hs, fault |-> d.fault]
     ELSE [hist |->
             [hs EXCEPT
                !.diffs = @ \o d.diff,
                !.latestDiffIndex = IF d.diff = <<>> THEN @ ELSE index,
                !.befores = <<>>,
                !.newPrimitives = <<>>,
                !.trackedPrimitives = <<>>],
           fault |-> "none"]

\* History.flush
Flush(hs, heap) ==
  LET tracked == Recordify(heap, hs.trackedPrimitives, TRUE, <<>>)
      afters == Recordify(heap, hs.newPrimitives, TRUE, tracked.records)
      d == MutualDiff(hs.befores, afters.records)
      index == hs.latestDiffIndex + 1
  IN IF d.fault # "none" THEN [hist |-> hs, fault |-> d.fault]
     ELSE [hist |->
             [hs EXCEPT
                !.diffs = IF d.diff = <<>> THEN @
                          ELSE SubSeq(@, 1, index) \o d.diff,
                !.latestDiffIndex = IF d.diff = <<>> THEN @ ELSE index,
                !.befores = <<>>,
                !.newPrimitives = <<>>,
                !.trackedPrimitives = <<>>],
           fault |-> "none"]

\* a variant of the supplier of tryUndo that leaves latestDiffIndex alone
UndoSupplier_keepsIndex(hs) ==
  IF hs.latestDiffIndex >= 0
  THEN [records |-> <<hs.diffs[hs.latestDiffIndex + 1].backward>>,
        index |-> hs.latestDiffIndex]
  ELSE [records |-> <<>>, index |-> hs.latestDiffIndex]

\* the records supplier of History.tryUndo: <<>> stands for undefined
UndoSupplier(hs) ==
  IF hs.latestDiffIndex >= 0
  THEN [records |-> <<hs.diffs[hs.latestDiffIndex + 1].backward>>,
        index |-> hs.latestDiffIndex - 1]
  ELSE [records |-> <<>>, index |-> hs.latestDiffIndex]

\* the records supplier of History.tryRedo
RedoSupplier(hs) ==
  IF hs.latestDiffIndex < Len(hs.diffs) - 1
  THEN [records |-> <<hs.diffs[hs.latestDiffIndex + 2].forward>>,
        index |-> hs.latestDiffIndex + 1]
  ELSE [records |-> <<>>, index |-> hs.latestDiffIndex]

\* what a caller can read of a live primitive
Look(heap, h) ==
  LET o == heap[h]
  IN [id |-> o.id, type |-> o.type,
      parents |-> [i \in 1..Len(o.parents) |-> heap[o.parents[i]].id],
      position |-> IF IsPoint(o) THEN <<o.position>> ELSE <<>>,
      hints |-> Get(o, "hints", <<>>),
      invalid |-> Get(o, "invalid", FALSE)]

\* the notifications History receives for the step from one heap to the
\* next (a replay, a bulk disposal): afterCreation for every primitive the
\* step registered, beforeChange for every older primitive it moved, reset
\* or disposed
RECURSIVE NotifyChanges(_, _, _, _)
NotifyChanges(hs, before, after, h) ==
  IF h > Len(after) THEN hs
  ELSE IF h > Len(before)
  THEN NotifyChanges(AfterPrimitiveCreation(hs, after, h).hist,
                    before, after, h + 1)
  ELSE IF \/ before[h].isDisposed # after[h].isDisposed
          \/ Look(before, h) # Look(after, h)
  THEN NotifyChanges(BeforePrimitiveChange(hs, before, h),
                    before, after, h + 1)
  ELSE NotifyChanges(hs, before, after, h + 1)

\* a variant of _applyDiff that does not raise _isApplyingDiff around the
\* replay
ApplyDiff_notSuspended(hs, r, supplied) ==
  IF hs.isApplyingDiff
  THEN [hist |-> hs, reg |-> r, fault |-> "StateError", replayed |-> FALSE]
  ELSE IF ~(Len(hs.newPrimitives) = 0 /\ Len(hs.trackedPrimitives) = 0)
  THEN [hist |-> hs, reg |-> r, fault |-> "StateError", replayed |-> FALSE]
  ELSE IF supplied.records = <<>>
  THEN [hist |-> [hs EXCEPT !.latestDiffIndex = supplied.index],
        reg |-> r, fault |-> "none", replayed |-> FALSE]
  ELSE LET Applied(d) ==
             [hist |-> [NotifyChanges(hs, r.heap, d.reg.heap, 1)
                          EXCEPT !.isApplyingDiff = FALSE,
                                 !.latestDiffIndex = supplied.index],
              reg |-> d.reg, fault |-> d.fault, replayed |-> TRUE]
       IN Applied(Derecordify(r, supplied.records[1], TRUE))

\* a variant of _applyDiff without the check for pending changes
ApplyDiff_ignoresPending(hs, r, supplied) ==
  IF hs.isApplyingDiff
  THEN [hist |-> hs, reg |-> r, fault |-> "StateError", replayed |-> FALSE]
  ELSE IF supplied.records = <<>>
  THEN [hist |-> [hs EXCEPT !.latestDiffIndex = supplied.index],
        reg |-> r, fault |-> "none", replayed |-> FALSE]
  ELSE LET During == [hs EXCEPT !.isApplyingDiff = TRUE]
           Applied(d) ==
             [hist |-> [NotifyChanges(During, r.heap, d.reg.heap, 1)
                          EXCEPT !.isApplyingDiff = FALSE,
                                 !.latestDiffIndex = supplied.index],
              reg |-> d.reg, fault |-> d.fault, replayed |-> TRUE]
       IN Applied(Derecordify(r, supplied.records[1], TRUE))

\* a variant of _applyDiff that asks the supplier before it checks for
\* pending changes
ApplyDiff_checksAfterSupplier(hs, r, supplied) ==
  IF hs.isApplyingDiff
  THEN [hist |-> hs, reg |-> r, fault |-> "StateError", replayed |-> FALSE]
  ELSE IF ~(Len(hs.newPrimitives) = 0 /\ Len(hs.trackedPrimitives) = 0)
  THEN [hist |-> [hs EXCEPT !.latestDiffIndex = supplied.index],
        reg |-> r, fault |-> "StateError", replayed |-> FALSE]
  ELSE IF supplied.records = <<>>
  THEN [hist |-> [hs EXCEPT !.latestDiffIndex = supplied.index],
        reg |-> r, fault |-> "none", replayed |-> FALSE]
  ELSE LET During == [hs EXCEPT !.isApplyingDiff = TRUE]
           Applied(d) ==
             [hist |-> [NotifyChanges(During, r.heap, d.reg.heap, 1)
                          EXCEPT !.isApplyingDiff = FALSE,
                                 !.latestDiffIndex = supplied.index],
              reg |-> d.reg, fault |-> d.fault, replayed |-> TRUE]
       IN Applied(Derecordify(r, supplied.records[1], TRUE))

\* History._applyDiff
ApplyDiff(hs, r, supplied) ==
  IF hs.isApplyingDiff
  THEN [hist |-> hs, reg |-> r, fault |-> "StateError", replayed |-> FALSE]
  ELSE IF ~(Len(hs.newPrimitives) = 0 /\ Len(hs.trackedPrimitives) = 0)
  THEN [hist |-> hs, reg |-> r, fault |-> "StateError", replayed |-> FALSE]
  ELSE IF supplied.records = <<>>
  THEN [hist |-> [hs EXCEPT !.latestDiffIndex = supplied.index],
        reg |-> r, fault |-> "none", replayed |-> FALSE]
  ELSE LET During == [hs EXCEPT !.isApplyingDiff = TRUE]
           Applied(d) ==
             [hist |-> [NotifyChanges(During, r.heap, d.reg.heap, 1)
                          EXCEPT !.isApplyingDiff = FALSE,
                                 !.latestDiffIndex = supplied.index],
              reg |-> d.reg, fault |-> d.fault, replayed |-> TRUE]
       IN Applied(Derecordify(r, supplied.records[1], TRUE))

\* History.tryUndo
TryUndoOp(hs, r) == ApplyDiff(hs, r, UndoSupplier(hs))

\* History.tryRedo
TryRedoOp(hs, r) == ApplyDiff(hs, r, RedoSupplier(hs))

\* FreePointPrimitiveDragger.dragTo of a dragger grabbed at the point itself
\* (PointPrimitive.tryMoveTo): the offset is zero
DragTo(r, h, position) ==
  OnPrimitiveChange([r EXCEPT !.heap[h].position = position], h)

\* ----------------------------------------------------------------- draggers
signnz(x) == IF x >= 0 THEN 1 ELSE -1

\* a quotient the floating-point division yields without rounding: the
\* divisor, reduced, is a power of two
Dyadic(num, den) ==
  den # 0 /\ \E k \in {1, 2, 4, 8, 16, 32, 64} : (num * k) % den = 0

\* the quotient num / den times a vector lies on integer coordinates and is
\* computed without rounding
ExactScaled(num, den, u) ==
  Dyadic(num, den) /\ (num * u.x) % den = 0 /\ (num * u.y) % den = 0

\* vec2.addScaled with the factor num / den, on exact inputs
addScaled(A, num, den, u) ==
  vec2(A.x + (num * u.x) \div den, A.y + (num * u.y) \div den)

\* Geometry.lineClosestPoint
lineClosestPoint(P, d, Q) ==
  LET n == rhp(d)
  IN IF lenSq(n) = 0 THEN vec2(NaN, NaN)
     ELSE addScaled(Q, -dot(span(P, Q), n), lenSq(n), n)

ExactLineClosestPoint(P, d, Q) ==
  ExactScaled(-dot(span(P, Q), rhp(d)), lenSq(d), rhp(d))

\* Geometry.circleClosestPoint, with the square of the radius
circleClosestPoint(C, rSq, P) ==
  LET u == span(C, P)
  IN IF lenSq(u) = 0 THEN vec2(NaN, NaN)
     ELSE addScaled(C, Sqrt(rSq), Sqrt(lenSq(u)), u)

ExactCircleClosestPoint(C, rSq, P) ==
  LET u == span(C, P)
  IN /\ IsSquare(rSq) /\ IsSquare(lenSq(u))
     /\ ExactScaled(Sqrt(rSq), Sqrt(lenSq(u)), u)

\* closestPoint of PointPrimitive, TwoPointLinePrimitive and CirclePrimitive
closestPoint(heap, h, position) ==
  CASE IsPoint(heap[h]) -> heap[h].position
    [] heap[h].type = "L" ->
         lineClosestPoint(heap[h].origin, heap[h].direction, position)
    [] heap[h].type = "O" ->
         circleClosestPoint(heap[h].center, heap[h].radiusSq, position)

ExactClosestPoint(heap, h, position) ==
  CASE IsPoint(heap[h]) -> TRUE
    [] heap[h].type = "L" ->
         ExactLineClosestPoint(heap[h].origin, heap[h].direction, position)
    [] heap[h].type = "O" ->
         ExactCircleClosestPoint(heap[h].center, heap[h].radiusSq, position)

\* new FreePointPrimitiveDragger
FreePointPrimitiveDragger(heap, point, grabPosition) ==
  [kind |-> "FreePoint", primitive |-> point, grabPosition |-> grabPosition,
   point |-> point, offset |-> span(grabPosition, heap[point].position)]

\* new PrimitiveNotDragger
PrimitiveNotDragger(heap, primitive, grabPosition, offenses) ==
  [kind |-> "Not", primitive |-> primitive,
   grabPosition |-> closestPoint(heap, primitive, grabPosition),
   offenses |-> offenses, position |-> grabPosition]

\* new CompoundPrimitiveDragger
CompoundPrimitiveDragger(primitive, grabPosition, draggers) ==
  [kind |-> "Compound", primitive |-> primitive,
   grabPosition |-> grabPosition, draggers |-> draggers]

\* new PivotPointPrimitiveDragger; the distance is kept as its square
PivotPointPrimitiveDragger(heap, subject, grabPosition, pivot) ==
  [kind |-> "Pivot", primitive |-> subject, grabPosition |-> grabPosition,
   pivot |-> pivot, subject |-> subject,
   distanceSq |-> distSq(heap[pivot].position, heap[subject].position)]

\* PrimitiveDragger.canDrag and its override in PrimitiveNotDragger
canDrag(d) == d.kind # "Not"

\* PrimitiveDragger.offenses and its override in PrimitiveNotDragger
offenses(d) == IF d.kind = "Not" THEN d.offenses ELSE <<>>

\* a variant of tryDrag that hands out a moving dragger for every point
PointTryDrag_dragsAny(heap, h, grabPosition) ==
  FreePointPrimitiveDragger(heap, h, grabPosition)

\* tryDrag of FreePointPrimitive and of IntersectionPointPrimitive
PointTryDrag(heap, h, grabPosition) ==
  IF heap[h].type = "P"
  THEN FreePointPrimitiveDragger(heap, h, grabPosition)
  ELSE PrimitiveNotDragger(heap, h, grabPosition, <<h>>)

\* a variant that turns the fixed point around the draggable one
LineTryDragFixed_swapped(heap, h, grabPosition, subject, pivot) ==
  [dragger |-> PivotPointPrimitiveDragger(heap, pivot, grabPosition, subject),
   fault |-> "none"]

\* TwoPointLinePrimitive._tryDrag0Fixed1 and _tryDrag1Fixed0
LineTryDragFixed(heap, h, grabPosition, subject, pivot) ==
  [dragger |-> PivotPointPrimitiveDragger(heap, subject, grabPosition, pivot),
   fault |-> "none"]

\* CirclePrimitive._tryDrag0Fixed1 reads `grabPosition`, a name that is not
\* bound in its scope (the parameter is _grabPosition); _tryDrag1Fixed0
\* builds a FixedCernterCirclePrimitiveDragger, whose constructor calls
\* super() without arguments, so that PrimitiveDragger calls clone() on
\* undefined
CircleTryDragFixed(heap, h, grabPosition, subject, pivot) ==
  [dragger |-> [kind |-> "none"],
   fault |-> IF subject = heap[h].parents[1] THEN "ReferenceError"
             ELSE "TypeError"]

\* _TwoPointPrimitiveMixin.tryDrag
TwoPointTryDrag(heap, h, grabPosition) ==
  LET point0 == heap[h].parents[1]
      point1 == heap[h].parents[2]
      dragger0 == PointTryDrag(heap, point0, grabPosition)
      dragger1 == PointTryDrag(heap, point1, grabPosition)
      Fixed(subject, pivot) ==
        IF heap[h].type = "L"
        THEN LineTryDragFixed(heap, h, grabPosition, subject, pivot)
        ELSE CircleTryDragFixed(heap, h, grabPosition, subject, pivot)
      Not(offending) ==
        [dragger |-> PrimitiveNotDragger(heap, h, grabPosition, offending),
         fault |-> "none"]
  IN IF canDrag(dragger0) /\ canDrag(dragger1)
     THEN [dragger |-> CompoundPrimitiveDragger(h, grabPosition,
                                                <<dragger0, dragger1>>),
           fault |-> "none"]
     ELSE IF canDrag(dragger0)
     THEN IF dependsOn(heap, point1, point0)
          THEN Not(<<point1, <<point0, point1>>>>)
          ELSE Fixed(point0, point1)
     ELSE IF canDrag(dragger1)
     THEN IF dependsOn(heap, point0, point1)
          THEN Not(<<point0, <<point1, point0>>>>)
          ELSE Fixed(point1, point0)
     ELSE Not(<<point0, point1>>)

\* tryDrag of any primitive
TryDrag(heap, h, grabPosition) ==
  IF IsPoint(heap[h])
  THEN [dragger |-> PointTryDrag(heap, h, grabPosition), fault |-> "none"]
  ELSE TwoPointTryDrag(heap, h, grabPosition)

\* the grab positions for which the dragger is built without rounding
ExactTryDrag(heap, h, grabPosition) ==
  LET t == TryDrag(heap, h, grabPosition)
  IN t.fault = "none" =>
       CASE t.dragger.kind = "Not" -> ExactClosestPoint(heap, h, grabPosition)
         [] t.dragger.kind = "Pivot" -> IsSquare(t.dragger.distanceSq)
         [] OTHER -> TRUE

\* a variant of dragTo that brings the derived primitives up to date itself
FreePointDragTo_propagates(r, d, position) ==
  LET Propagated(m) == [reg |-> EditFinally(m.reg).reg, fault |-> m.fault]
  IN Propagated(OnPrimitiveChange(
       [r EXCEPT !.heap[d.point].position =
                   vec2(position.x + d.offset.x, position.y + d.offset.y)],
       d.point))

\* FreePointPrimitiveDragger.dragTo
FreePointDragTo(r, d, position) ==
  OnPrimitiveChange(
    [r EXCEPT !.heap[d.point].position =
                vec2(position.x + d.offset.x, position.y + d.offset.y)],
    d.point)

\* PivotPointPrimitiveDragger.dragTo
PivotDragTo(r, d, position) ==
  LET u == span(r.heap[d.pivot].position, position)
      uLength == Sqrt(lenSq(u))
      distance == Sqrt(d.distanceSq)
      s == signnz(dot(u, span(r.heap[d.pivot].position,
                              r.heap[d.subject].position)))
  IN IF 1000 * uLength < distance THEN [reg |-> r, fault |-> "none"]
     ELSE OnPrimitiveChange(
            [r EXCEPT !.heap[d.subject].position =
                        addScaled(r.heap[d.pivot].position,
                                  s * distance, uLength, u)],
            d.subject)

\* the positions for which PivotPointPrimitiveDragger.dragTo rounds nothing
ExactPivotDragTo(r, d, position) ==
  LET u == span(r.heap[d.pivot].position, position)
  IN /\ IsSquare(lenSq(u)) /\ IsSquare(d.distanceSq)
     /\ 1000 * Sqrt(lenSq(u)) >= Sqrt(d.distanceSq) =>
          ExactScaled(Sqrt(d.distanceSq), Sqrt(lenSq(u)), u)

\* CompoundPrimitiveDragger.dragTo over two FreePointPrimitiveDraggers: a
\* fault of the first ends the loop
CompoundDragTo(r, d, position) ==
  LET Second(first) ==
        IF first.fault # "none" THEN first
        ELSE FreePointDragTo(first.reg, d.draggers[2], position)
  IN Second(FreePointDragTo(r, d.draggers[1], position))

\* dragTo of the dragger `d`: the registry, the dragger and the fault after
\* the call
DraggerDragTo(r, d, position) ==
  LET Moved(m) == [reg |-> m.reg, dragger |-> d, fault |-> m.fault]
  IN CASE d.kind = "Not" ->
            [reg |-> r, dragger |-> [d EXCEPT !.position = position],
             fault |-> "none"]
       [] d.kind = "FreePoint" -> Moved(FreePointDragTo(r, d, position))
       [] d.kind = "Pivot" -> Moved(PivotDragTo(r, d, position))
       [] d.kind = "Compound" -> Moved(CompoundDragTo(r, d, position))

ExactDragTo(r, d, position) ==
  d.kind = "Pivot" => ExactPivotDragTo(r, d, position)

\* ------------------------------------------------------------ observation
Scene(r) == {Look(r.heap, h) : h \in Alive(r)}

Op(name, a, b, c) == [name |-> name, a |-> a, b |-> b, c |-> c]

\* the callback's calls, summarised: how many (2 for two or more) and, when
\* its only call was a move, the point moved
NoCalls == [count |-> 0, moved |-> 0]

LogCall(log, name, h) ==
  IF log.count = 0
  THEN [count |-> 1, moved |-> IF name = "move" THEN h ELSE 0]
  ELSE [count |-> 2, moved |-> 0]

\* ------------------------------------------------------------------- Init
NewPrimitives ==
  [heap |-> <<>>, primitives |-> <<>>, nextPrimitiveId |-> 1,
   changedPrimitives |-> <<>>, invalidatedPrimitives |-> <<>>,
   intersectionPoints |-> [k \in {} |-> <<>>]]

NewHistory(attached) ==
  [attached |-> attached, diffs |-> <<>>, latestDiffIndex |-> -1,
   isApplyingDiff |-> FALSE, trackedPrimitives |-> <<>>,
   newPrimitives |-> <<>>, befores |-> <<>>]

NothingSaved == [records |-> <<>>, scene |-> {}]

\* no tryDrag was called yet
NoDragger == [kind |-> "none"]

InitWith(attached) ==
  /\ reg = NewPrimitives
  /\ hist = NewHistory(attached)
  /\ inEdit = FALSE
  /\ applied = <<>>
  /\ editLog = NoCalls
  /\ fault = "none"
  /\ lastOp = Op("new", 0, 0, 0)
  /\ snap = {}
  /\ saved = NothingSaved
  /\ dragger = NoDragger
  /\ recordifyInProgress = FALSE
  /\ deserializerPrimitives = FALSE

Init == InitWith(FALSE)

InitHistory == InitWith(TRUE)

\* a history attached to a registry that holds a line through two free
\* points, with nothing recorded yet
InitLineage ==
  /\ LET P(x, y, r) == CreatePoint(r, [x |-> x, y |-> y])
     IN reg = CreateLine(P(2, 0, P(0, 0, NewPrimitives)), 1, 2)
  /\ hist = NewHistory(TRUE)
  /\ inEdit = FALSE
  /\ applied = <<>>
  /\ editLog = NoCalls
  /\ fault = "none"
  /\ lastOp = Op("createLine", 0, 0, 0)
  /\ snap = {}
  /\ saved = NothingSaved
  /\ dragger = NoDragger
  /\ recordifyInProgress = FALSE
  /\ deserializerPrimitives = FALSE

\* a history attached to a registry with one free point
InitGuards ==
  /\ reg = CreatePoint(NewPrimitives, [x |-> 0, y |-> 0])
  /\ hist = NewHistory(TRUE)
  /\ inEdit = FALSE
  /\ applied = <<>>
  /\ editLog = NoCalls
  /\ fault = "none"
  /\ lastOp = Op("createPoint", 0, 0, 0)
  /\ snap = {}
  /\ saved = NothingSaved
  /\ dragger = NoDragger
  /\ recordifyInProgress = FALSE
  /\ deserializerPrimitives = FALSE

\* two circles of radius 5 around (0, 0) and (8, 0), in tenths of a unit
InitTwoCircles ==
  /\ LET P(x, y, r) == CreatePoint(r, [x |-> x, y |-> y])
         Points == P(130, 0, P(80, 0, P(50, 0, P(0, 0, NewPrimitives))))
     IN reg = CreateCircle(CreateCircle(Points, 1, 2), 3, 4)
  /\ hist = NewHistory(FALSE)
  /\ inEdit = FALSE
  /\ applied = <<>>
  /\ editLog = NoCalls
  /\ fault = "none"
  /\ lastOp = Op("createCircle", 0, 0, 0)
  /\ snap = {}
  /\ saved = NothingSaved
  /\ dragger = NoDragger
  /\ recordifyInProgress = FALSE
  /\ deserializerPrimitives = FALSE

\* three lines through four free points, the first cut by the other two in
\* two intersection points, and a fifth free point that lies apart
InitDrag ==
  /\ LET P(x, y, r) == CreatePoint(r, [x |-> x, y |-> y])
         Points == P(2, 0, P(0, 0, P(0, 2, P(2, 0, P(0, 0, NewPrimitives)))))
         Lines == CreateLine(CreateLine(CreateLine(Points, 1, 2), 3, 4), 2, 3)
         Cut(r, c0, c1, x, y) ==
           TryGetOrCreateIntersectionPoint(r, c0, c1, [x |-> x, y |-> y],
                                           <<>>).reg
     IN reg = Cut(Cut(Lines, 6, 7, 0, 0), 6, 8, 2, 0)
  /\ hist = NewHistory(FALSE)
  /\ inEdit = FALSE
  /\ applied = <<>>
  /\ editLog = NoCalls
  /\ fault = "none"
  /\ lastOp = Op("intersect", 10, 0, 0)
  /\ snap = {}
  /\ saved = NothingSaved
  /\ dragger = NoDragger
  /\ recordifyInProgress = FALSE
  /\ deserializerPrimitives = FALSE

\* a registry in which three free points were created
InitScene ==
  /\ \E a, b, c \in Positions :
       reg = CreatePoint(CreatePoint(CreatePoint(NewPrimitives, a), b), c)
  /\ hist = NewHistory(FALSE)
  /\ inEdit = FALSE
  /\ applied = <<>>
  /\ editLog = NoCalls
  /\ fault = "none"
  /\ lastOp = Op("createPoint", 0, 0, 0)
  /\ snap = {}
  /\ saved = NothingSaved
  /\ dragger = NoDragger
  /\ recordifyInProgress = FALSE
  /\ deserializerPrimitives = FALSE

\* a line through two free points, the first at `a`, and a circle around a
\* third through a fourth
InitLineAndCircle(a) ==
  /\ LET P(x, y, r) == CreatePoint(r, [x |-> x, y |-> y])
         Points == P(2, 0, P(0, 0, P(2, 0, CreatePoint(NewPrimitives, a))))
     IN reg = CreateCircle(CreateLine(Points, 1, 2), 3, 4)
  /\ hist = NewHistory(FALSE)
  /\ inEdit = FALSE
  /\ applied = <<>>
  /\ editLog = NoCalls
  /\ fault = "none"
  /\ lastOp = Op("createCircle", 0, 0, 0)
  /\ snap = {}
  /\ saved = NothingSaved
  /\ dragger = NoDragger
  /\ recordifyInProgress = FALSE
  /\ deserializerPrimitives = FALSE

\* the line cuts the circle in (2,0) and (-2,0)
InitCircle == InitLineAndCircle([x |-> 0, y |-> 0])

\* the line cuts the circle in (2,0) and (0,2)
InitDispose == InitLineAndCircle([x |-> 0, y |-> 2])

\* every line and circle of the scene are in exact position
ExactScene(r) ==
  \A l, o \in Alive(r) :
    (r.heap[l].type = "L" /\ r.heap[o].type = "O") =>
      ExactLineCircle(r.heap[l].origin, r.heap[l].direction,
                      r.heap[o].center, r.heap[o].radiusSq)

\* the members of a set in the order of their creation
RECURSIVE Ascending(_)
Ascending(S) ==
  IF S = {} THEN <<>>
  ELSE LET m == CHOOSE h \in S : \A k \in S : h <= k
       IN <<m>> \o Ascending(S \ {m})

\* ---------------------------------------------------------------- actions
Logged(name, h) == IF inEdit THEN LogCall(editLog, name, h) ELSE NoCalls

AppliedKept == IF inEdit THEN applied ELSE <<>>

\* a creation is reported to the history once the primitive is registered
Created(name, r1) ==
  LET h == Len(r1.heap)
      Told(a) ==
        /\ reg' = r1
        /\ hist' = a.hist
        /\ fault' = a.fault
        /\ editLog' = Logged(name, h)
  IN /\ Told(AfterPrimitiveCreation(hist, r1.heap, h))
     /\ applied' = AppliedKept
     /\ lastOp' = Op(name, 0, 0, 0)
     /\ snap' = {}
     /\ UNCHANGED <<aside, inEdit, saved>>

DoCreatePoint(cap, position) ==
  /\ Len(reg.heap) < cap
  /\ Created("createPoint", CreatePoint(reg, position))

DoCreateLine(cap, p0, p1) ==
  /\ Len(reg.heap) < cap
  /\ p0 # p1
  /\ IsPoint(reg.heap[p0]) /\ IsPoint(reg.heap[p1])
  /\ Created("createLine", CreateLine(reg, p0, p1))

DoCreateCircle(cap, p0, p1) ==
  /\ Len(reg.heap) < cap
  /\ p0 # p1
  /\ IsPoint(reg.heap[p0]) /\ IsPoint(reg.heap[p1])
  /\ Created("createCircle", CreateCircle(reg, p0, p1))

\* Primitives.tryGetOrCreateIntersectionPoint without hints; the call is
\* remembered with its arguments
IntersectCurves(cap, c0, c1, approximatePosition) ==
  /\ Len(reg.heap) < cap
  /\ c0 # c1
  /\ reg.invalidatedPrimitives = <<>>
  /\ LET Told(t, a) ==
           /\ reg' = t.reg
           /\ hist' = a.hist
           /\ fault' = a.fault
           /\ lastOp' = Op("intersect", t.point,
                           IF t.isExisting THEN 1 ELSE 0,
                           <<c0, c1, approximatePosition>>)
           /\ editLog' = Logged("intersect", t.point)
         Got(t) ==
           Told(t, IF t.point # 0 /\ ~t.isExisting
                   THEN AfterPrimitiveCreation(hist, t.reg.heap, t.point)
                   ELSE [hist |-> hist, fault |-> "none"])
     IN Got(TryGetOrCreateIntersectionPoint(reg, c0, c1,
                                            approximatePosition, <<>>))
  /\ applied' = AppliedKept
  /\ snap' = {}
  /\ UNCHANGED <<aside, inEdit, saved>>

\* tryGetOrCreateIntersectionPoint on two lines
DoIntersect(cap, c0, c1, approximatePosition) ==
  /\ reg.heap[c0].type = "L" /\ reg.heap[c1].type = "L"
  /\ IntersectCurves(cap, c0, c1, approximatePosition)

\* tryGetOrCreateIntersectionPoint on a line and a circle, in either order
DoIntersectCircle(cap, c0, c1, approximatePosition) ==
  /\ {reg.heap[c0].type, reg.heap[c1].type} = {"L", "O"}
  /\ IntersectCurves(cap, c0, c1, approximatePosition)

\* every two circles of the scene are in exact position
ExactCircles(r) ==
  \A c0, c1 \in Alive(r) :
    (c0 # c1 /\ r.heap[c0].type = "O" /\ r.heap[c1].type = "O") =>
      ExactCircleCircle(r.heap[c0].center, r.heap[c0].radiusSq,
                        r.heap[c1].center, r.heap[c1].radiusSq)

\* tryGetOrCreateIntersectionPoint on two circles
DoIntersectCircles(cap, c0, c1, approximatePosition) ==
  /\ reg.heap[c0].type = "O" /\ reg.heap[c1].type = "O"
  /\ IntersectCurves(cap, c0, c1, approximatePosition)

\* Primitives.edit up to the call of the callback
BeginEdit ==
  /\ ~inEdit
  /\ inEdit' = TRUE
  /\ editLog' = NoCalls
  /\ applied' = <<>>
  /\ fault' = "none"
  /\ lastOp' = Op("beginEdit", 0, 0, 0)
  /\ snap' = {}
  /\ UNCHANGED <<aside, reg, hist, saved>>

\* the callback moves a free point and notifies the registry
DoMove(p, position) ==
  /\ inEdit
  /\ reg.heap[p].type = "P"
  /\ reg.heap[p].position # position
  /\ LET m == DragTo(reg, p, position)
     IN /\ reg' = m.reg
        /\ fault' = m.fault
  /\ hist' = BeforePrimitiveChange(hist, reg.heap, p)
  /\ editLog' = LogCall(editLog, "move", p)
  /\ lastOp' = Op("move", 0, 0, 0)
  /\ snap' = {}
  /\ UNCHANGED <<aside, inEdit, applied, saved>>

\* the finally block of Primitives.edit, after the callback returned
EndEdit ==
  /\ inEdit
  /\ LET e == EditFinally(reg)
     IN /\ reg' = e.reg
        /\ applied' = e.applied
  /\ inEdit' = FALSE
  /\ fault' = "none"
  /\ lastOp' = Op("edit", 0, 0, 0)
  /\ snap' = {}
  /\ UNCHANGED <<aside, hist, editLog, saved>>

\* the callback calls notifyChange on a primitive
DoNotify(h) ==
  /\ inEdit
  /\ LET Notified(n) == reg' = n.reg /\ fault' = n.fault
     IN Notified(OnPrimitiveChange(reg, h))
  /\ hist' = BeforePrimitiveChange(hist, reg.heap, h)
  /\ editLog' = LogCall(editLog, "notify", h)
  /\ lastOp' = Op("notify", h, 0, 0)
  /\ snap' = {}
  /\ UNCHANGED <<aside, inEdit, applied, saved>>

\* the callback calls Primitives.edit with a callback that does nothing:
\* console.assert reports a failed assertion on the console and returns,
\* and the finally block of the inner call runs
DoNestedEdit ==
  /\ inEdit
  /\ LET Finally(e) == reg' = e.reg /\ applied' = e.applied
     IN Finally(EditFinally(reg))
  /\ fault' = "none"
  /\ editLog' = LogCall(editLog, "edit", 0)
  /\ lastOp' = Op("nestedEdit",
                  IF reg.changedPrimitives = <<>> THEN 0 ELSE 1, 0, 0)
  /\ snap' = {}
  /\ UNCHANGED <<aside, hist, inEdit, saved>>

\* the callback raises a fault: the finally block of Primitives.edit runs
\* and the fault leaves the call
AbortEdit ==
  /\ inEdit
  /\ LET Finally(e) == reg' = e.reg /\ applied' = e.applied
     IN Finally(EditFinally(reg))
  /\ inEdit' = FALSE
  /\ fault' = "Error"
  /\ lastOp' = Op("editFault", 0, 0, 0)
  /\ snap' = {}
  /\ UNCHANGED <<aside, hist, editLog, saved>>

\* Primitive.dispose; a call that faults reports no change
DoDispose(h) ==
  /\ LET Disposed(d) ==
           /\ reg' = d.reg
           /\ fault' = d.fault
           /\ hist' = IF d.fault = "none"
                      THEN BeforePrimitiveChange(hist, reg.heap, h)
                      ELSE hist
     IN Disposed(Dispose(reg, h))
  /\ editLog' = Logged("dispose", h)
  /\ applied' = AppliedKept
  /\ lastOp' = Op("dispose", 0, 0, 0)
  /\ snap' = {}
  /\ UNCHANGED <<aside, inEdit, saved>>

\* Primitives.dispose (static) on the primitives listed in `s`
DoDisposeAll(s) ==
  /\ ~inEdit
  /\ LET Disposed(d) ==
           /\ reg' = d.reg
           /\ fault' = d.fault
           /\ hist' = NotifyChanges(hist, reg.heap, d.reg.heap, 1)
     IN Disposed(DisposeAll(reg, s))
  /\ lastOp' = Op("disposeAll", Range(s), 0, 0)
  /\ editLog' = NoCalls
  /\ applied' = <<>>
  /\ snap' = {}
  /\ UNCHANGED <<aside, inEdit, saved>>

\* Primitives.edit with a callback that moves one free point: the whole
\* transaction, the finally block included
DoEditMove(p, position) ==
  /\ ~inEdit
  /\ reg.heap[p].type = "P"
  /\ reg.heap[p].position # position
  /\ LET m == DragTo(reg, p, position)
         e == EditFinally(m.reg)
     IN /\ reg' = e.reg
        /\ applied' = e.applied
        /\ fault' = m.fault
  /\ hist' = BeforePrimitiveChange(hist, reg.heap, p)
  /\ editLog' = LogCall(NoCalls, "move", p)
  /\ lastOp' = Op("edit", 0, 0, 0)
  /\ snap' = {}
  /\ UNCHANGED <<aside, inEdit, saved>>

\* History.flush; a flush that appends is taken while the log stays within
\* MaxDiffs entries
DoFlush ==
  /\ ~inEdit
  /\ hist.attached
  /\ LET f == Flush(hist, reg.heap)
     IN /\ \/ hist.latestDiffIndex + 1 < MaxDiffs
           \/ f.hist.latestDiffIndex = hist.latestDiffIndex
        /\ hist' = f.hist
        /\ fault' = f.fault
        /\ lastOp' = Op("flush",
                        IF f.hist.latestDiffIndex # hist.latestDiffIndex
                        THEN 1 ELSE 0,
                        Len(hist.diffs) - (hist.latestDiffIndex + 1),
                        IF hist.trackedPrimitives # <<>> THEN 1 ELSE 0)
  /\ applied' = <<>>
  /\ editLog' = NoCalls
  /\ snap' = {}
  /\ UNCHANGED <<aside, reg, inEdit, saved>>

\* Primitives.edit with a callback that calls History.tryUndo (every input
\* handler runs inside an edit); a replay may not take the heap beyond
\* MaxReplay objects
DoUndo ==
  /\ ~inEdit
  /\ hist.attached
  /\ LET Finally(e) == reg' = e.reg /\ applied' = e.applied
         Undone(u) ==
           /\ Len(u.reg.heap) <= MaxReplay
           /\ hist' = u.hist
           /\ Finally(EditFinally(u.reg))
           /\ fault' = u.fault
           /\ lastOp' = Op("undo", IF u.replayed THEN 1 ELSE 0, 0, 0)
           /\ snap' = IF u.replayed THEN Scene(reg) ELSE {}
     IN Undone(TryUndoOp(hist, reg))
  /\ editLog' = NoCalls
  /\ UNCHANGED <<aside, inEdit, saved>>

\* Primitives.edit with a callback that calls History.tryRedo
DoRedo ==
  /\ ~inEdit
  /\ hist.attached
  /\ LET Finally(e) == reg' = e.reg /\ applied' = e.applied
         Redone(u) ==
           /\ Len(u.reg.heap) <= MaxReplay
           /\ hist' = u.hist
           /\ Finally(EditFinally(u.reg))
           /\ fault' = u.fault
           /\ lastOp' = Op("redo", IF u.replayed THEN 1 ELSE 0, 0, 0)
     IN Redone(TryRedoOp(hist, reg))
  /\ editLog' = NoCalls
  /\ snap' = {}
  /\ UNCHANGED <<aside, inEdit, saved>>

\* tryDrag of a primitive at a grab position; the caller keeps the dragger
\* when the call returns one
DoTryDrag(h, grabPosition) ==
  /\ ~inEdit
  /\ ExactTryDrag(reg.heap, h, grabPosition)
  /\ LET Tried(t) ==
           /\ dragger' = IF t.fault = "none" THEN t.dragger ELSE dragger
           /\ fault' = t.fault
     IN Tried(TryDrag(reg.heap, h, grabPosition))
  /\ lastOp' = Op("tryDrag", h, 0, 0)
  /\ applied' = <<>>
  /\ editLog' = NoCalls
  /\ snap' = {}
  /\ UNCHANGED <<reg, hist, inEdit, saved, recordifyInProgress,
                 deserializerPrimitives>>

\* the callback of an edit calls dragTo of the dragger
DoDragTo(position) ==
  /\ inEdit
  /\ dragger.kind # "none"
  /\ ExactDragTo(reg, dragger, position)
  /\ LET Dragged(m) ==
           /\ reg' = m.reg
           /\ dragger' = m.dragger
           /\ fault' = m.fault
           /\ hist' = NotifyChanges(hist, reg.heap, m.reg.heap, 1)
     IN Dragged(DraggerDragTo(reg, dragger, position))
  /\ editLog' = LogCall(editLog, "dragTo", 0)
  /\ lastOp' = Op("dragTo", position, 0, 0)
  /\ snap' = {}
  /\ UNCHANGED <<inEdit, applied, saved, recordifyInProgress,
                 deserializerPrimitives>>

\* a variant of the head of recordify without the check
RecordifyEntry_unguarded(inProgress) == [fault |-> "none", inProgress |-> TRUE]

\* the check and the assignment at the head of Serializer.recordify
RecordifyEntry(inProgress) ==
  IF inProgress THEN [fault |-> "StateError", inProgress |-> inProgress]
  ELSE [fault |-> "none", inProgress |-> TRUE]

\* the finally block of Serializer.recordify: the flag is deleted
RecordifyFinally(inProgress) == FALSE

\* the check and the assignment at the head of Deserializer.derecordify
DerecordifyEntry(primitives) ==
  IF primitives THEN [fault |-> "StateError", primitives |-> primitives]
  ELSE [fault |-> "none", primitives |-> TRUE]

\* the finally block of Deserializer.derecordify: _primitives is deleted
DerecordifyFinally(primitives) == FALSE

\* the checks and the assignment at the head of History._applyDiff
ApplyDiffEntry(hs) ==
  IF hs.isApplyingDiff THEN [fault |-> "StateError", hist |-> hs]
  ELSE IF ~(Len(hs.newPrimitives) = 0 /\ Len(hs.trackedPrimitives) = 0)
  THEN [fault |-> "StateError", hist |-> hs]
  ELSE [fault |-> "none", hist |-> [hs EXCEPT !.isApplyingDiff = TRUE]]

\* the finally block of History._applyDiff
ApplyDiffFinally(hs) == [hs EXCEPT !.isApplyingDiff = FALSE]

\* no guarded call is in progress
AtRest ==
  ~hist.isApplyingDiff /\ ~recordifyInProgress /\ ~deserializerPrimitives

\* Serializer.recordify is called with an iterable that yields nothing, up
\* to the point where the iterable is asked for its first primitive; a
\* nested call ends at the check
EnterRecordify ==
  /\ LET Entered(e) ==
           /\ recordifyInProgress' = e.inProgress
           /\ fault' = e.fault
     IN Entered(RecordifyEntry(recordifyInProgress))
  /\ lastOp' = Op("recordify", IF recordifyInProgress THEN 1 ELSE 0, 0, 0)
  /\ snap' = {}
  /\ UNCHANGED <<reg, hist, inEdit, applied, editLog, saved, dragger,
                 deserializerPrimitives>>

\* the iterable ends or raises a fault, and the call in progress ends
LeaveRecordify(thrown) ==
  /\ recordifyInProgress
  /\ recordifyInProgress' = RecordifyFinally(recordifyInProgress)
  /\ fault' = IF thrown THEN "Error" ELSE "none"
  /\ lastOp' = Op("recordifyEnd", 0, 0, 0)
  /\ snap' = {}
  /\ UNCHANGED <<reg, hist, inEdit, applied, editLog, saved, dragger,
                 deserializerPrimitives>>

\* Deserializer.derecordify is called with an iterable that yields no
\* record, up to the point where it is asked for the first record
EnterDerecordify ==
  /\ LET Entered(e) ==
           /\ deserializerPrimitives' = e.primitives
           /\ fault' = e.fault
     IN Entered(DerecordifyEntry(deserializerPrimitives))
  /\ lastOp' = Op("derecordify",
                  IF deserializerPrimitives THEN 1 ELSE 0, 0, 0)
  /\ snap' = {}
  /\ UNCHANGED <<reg, hist, inEdit, applied, editLog, saved, dragger,
                 recordifyInProgress>>

\* the iterable ends or raises a fault: nothing was created, so the catch
\* block disposes nothing and wraps the fault
LeaveDerecordify(thrown) ==
  /\ deserializerPrimitives
  /\ deserializerPrimitives' = DerecordifyFinally(deserializerPrimitives)
  /\ fault' = IF thrown THEN "DeserializationError" ELSE "none"
  /\ lastOp' = Op("derecordifyEnd", 0, 0, 0)
  /\ snap' = {}
  /\ UNCHANGED <<reg, hist, inEdit, applied, editLog, saved, dragger,
                 recordifyInProgress>>

\* History._applyDiff is called with a supplier that returns no records, up
\* to the point where the supplier runs
EnterApplyDiff ==
  /\ hist.attached
  /\ LET Entered(e) == hist' = e.hist /\ fault' = e.fault
     IN Entered(ApplyDiffEntry(hist))
  /\ lastOp' = Op("applyDiff", IF hist.isApplyingDiff THEN 1 ELSE 0, 0, 0)
  /\ snap' = {}
  /\ UNCHANGED <<aside, reg, inEdit, applied, editLog, saved>>

\* the supplier returns or raises a fault, and the call in progress ends
LeaveApplyDiff(thrown) ==
  /\ hist.isApplyingDiff
  /\ hist' = ApplyDiffFinally(hist)
  /\ fault' = IF thrown THEN "Error" ELSE "none"
  /\ lastOp' = Op("applyDiffEnd", 0, 0, 0)
  /\ snap' = {}
  /\ UNCHANGED <<aside, reg, inEdit, applied, editLog, saved>>

\* the traversal of Primitives[Symbol.iterator] run to its end: the live
\* primitives in creation order, the array compacted
Iterate(r) ==
  LET live == SelectSeq(r.primitives, LAMBDA h : ~r.heap[h].isDisposed)
  IN [reg |-> [r EXCEPT !.primitives = live], yielded |-> live]

\* Primitives[Symbol.iterator] from the array index `j` on, with `i` slots
\* already rewritten, for a consumer that leaves the loop when it has taken
\* `taken` values: the generator is then returned at its yield, and the
\* statement after its loop, which cuts the array, is not run
RECURSIVE IterateFrom(_, _, _, _, _)
IterateFrom(r, i, j, yielded, taken) ==
  IF j >= Len(r.primitives)
  THEN [reg |-> [r EXCEPT !.primitives = SubSeq(@, 1, i)],
        yielded |-> yielded]
  ELSE IF r.heap[r.primitives[j + 1]].isDisposed
  THEN IterateFrom(r, i, j + 1, yielded, taken)
  ELSE IF Len(yielded) + 1 = taken
  THEN [reg |-> [r EXCEPT !.primitives[i + 1] = r.primitives[j + 1]],
        yielded |-> Append(yielded, r.primitives[j + 1])]
  ELSE IterateFrom([r EXCEPT !.primitives[i + 1] = r.primitives[j + 1]],
                   i + 1, j + 1, Append(yielded, r.primitives[j + 1]), taken)

\* a for-of loop over the primitives that runs to the end
DoIterate ==
  /\ ~inEdit
  /\ LET Listed(it) ==
           /\ reg' = it.reg
           /\ saved' = [records |-> <<>>, scene |-> {},
                        yielded |-> it.yielded]
     IN Listed(IterateFrom(reg, 0, 0, <<>>, 0))
  /\ lastOp' = Op("iterate", 0, 0, 0)
  /\ fault' = "none"
  /\ snap' = {}
  /\ UNCHANGED <<aside, hist, inEdit, applied, editLog>>

\* a for-of loop over the primitives that breaks at its `taken`-th value
DoIterateBreak(taken) ==
  /\ ~inEdit
  /\ taken <= Cardinality(Alive(reg))
  /\ LET Listed(it) ==
           /\ reg' = it.reg
           /\ saved' = [records |-> <<>>, scene |-> {},
                        yielded |-> it.yielded]
     IN Listed(IterateFrom(reg, 0, 0, <<>>, taken))
  /\ lastOp' = Op("iterateBreak", taken, 0, 0)
  /\ fault' = "none"
  /\ snap' = {}
  /\ UNCHANGED <<aside, hist, inEdit, applied, editLog>>

\* Serializer.recordify over the registry: every live primitive, in the
\* order of the traversal
DoRecordify ==
  /\ ~inEdit
  /\ LET Saved(rs) ==
           /\ fault' = rs.fault
           /\ saved' = [records |-> rs.records, scene |-> Scene(reg)]
         Listed(it) ==
           /\ reg' = it.reg
           /\ Saved(Recordify(it.reg.heap, it.yielded, FALSE, <<>>))
     IN Listed(Iterate(reg))
  /\ lastOp' = Op("recordify", 0, 0, 0)
  /\ snap' = {}
  /\ UNCHANGED <<aside, hist, inEdit, applied, editLog>>

\* every live primitive is recordified, and the records are derecordified
\* into a new, empty Primitives
DoRoundTrip ==
  /\ ~inEdit
  /\ Alive(reg) # {}
  /\ LET Loaded(d) == reg' = d.reg /\ fault' = d.fault
         Saved(rs) ==
           /\ rs.fault = "none"
           /\ saved' = [records |-> rs.records, scene |-> Scene(reg)]
           /\ Loaded(Derecordify(NewPrimitives, rs.records, FALSE))
         Listed(it) == Saved(Recordify(it.reg.heap, it.yielded, FALSE, <<>>))
     IN Listed(Iterate(reg))
  /\ lastOp' = Op("roundTrip", 0, 0, 0)
  /\ snap' = {}
  /\ UNCHANGED <<aside, hist, inEdit, applied, editLog>>

\* ---------------------------------------------------------- specifications
\* the primitive graph on its own
Next ==
  \/ \E position \in EditPositions : DoCreatePoint(MaxPrims, position)
  \/ \E p0, p1 \in Alive(reg) : DoCreateLine(MaxPrims, p0, p1)
  \/ \E p0, p1 \in Alive(reg) : DoCreateCircle(MaxPrims, p0, p1)
  \/ BeginEdit
  \/ \E p \in Alive(reg), position \in EditPositions : DoMove(p, position)
  \/ EndEdit
  \/ \E h \in Alive(reg) : DoDispose(h)

Spec == Init /\ [][Next]_vars

\* free points with a History listening to the registry
NextHistory ==
  \/ \E position \in EditPositions : DoCreatePoint(MaxReplay, position)
  \/ \E p \in Alive(reg), position \in EditPositions :
        DoEditMove(p, position)
  \/ \E h \in Alive(reg) : DoDispose(h)
  \/ DoFlush
  \/ DoUndo
  \/ DoRedo

SpecHistory == InitHistory /\ [][NextHistory]_vars

\* a scene of lines and intersection points is built over three free points,
\* and single free points are moved, each in an edit of its own
NextClosure ==
  \/ \E p0, p1 \in Alive(reg) :
        p0 < p1 /\ DoCreateLine(MaxClosure, p0, p1)
  \/ \E c0, c1 \in Alive(reg), position \in Positions :
        c0 < c1 /\ DoIntersect(MaxClosure, c0, c1, position)
  \/ \E p \in Alive(reg), position \in EditPositions :
        DoEditMove(p, position)

SpecClosure == InitScene /\ [][NextClosure]_vars

\* a scene is built and then serialized and loaded into a new registry
NextRoundTrip ==
  \/ /\ lastOp.name # "roundTrip"
     /\ \/ \E p0, p1 \in Alive(reg) : DoCreateLine(MaxScene, p0, p1)
        \/ \E p0, p1 \in Alive(reg) : DoCreateCircle(MaxScene, p0, p1)
        \/ \E c0, c1 \in Alive(reg), position \in Positions :
              DoIntersect(MaxScene, c0, c1, position)
        \/ DoRoundTrip

SpecRoundTrip == InitScene /\ [][NextRoundTrip]_vars

\* a line and a circle cut in intersection points, and free points are
\* moved while the scene stays in exact position
NextCircle ==
  \/ \E c0, c1 \in Alive(reg), position \in GridPositions :
        DoIntersectCircle(MaxCircle, c0, c1, position)
  \/ \E p \in DOMAIN CircleTracks : \E position \in CircleTracks[p] :
        DoEditMove(p, position) /\ ExactScene(reg')

SpecCircle == InitCircle /\ [][NextCircle]_vars

\* a set of primitives that holds the children of each of its members, and
\* with them all their descendants
HoldsDescendants(r, S) == \A h \in S : Range(r.heap[h].children) \subseteq S

\* intersection points of a line and a circle and lines through them are
\* created, primitives are disposed one by one, and sets that hold their
\* descendants are disposed in bulk, listed parents first
NextDispose ==
  \/ \E c0, c1 \in Alive(reg), position \in GridPositions :
        c0 < c1 /\ DoIntersectCircle(MaxDispose, c0, c1, position)
  \/ \E p0, p1 \in Alive(reg) :
        /\ p0 < p1
        /\ reg.heap[p1].type = "X"
        /\ DoCreateLine(MaxDispose, p0, p1)
  \/ \E h \in Alive(reg) : DoDispose(h)
  \/ \E S \in SUBSET Alive(reg) :
        S # {} /\ HoldsDescendants(reg, S) /\ DoDisposeAll(Ascending(S))

SpecDispose == InitDispose /\ [][NextDispose]_vars

\* the callback of an edit moves free points, reports changes, disposes
\* intersection points, calls edit again, returns or raises a fault
NextEdit ==
  \/ \E position \in GridPositions :
        ~inEdit /\ DoIntersectCircle(MaxEdit, 5, 6, position)
  \/ BeginEdit
  \/ \E position \in CircleTracks[1] :
        DoMove(1, position) /\ ExactScene(EditFinally(reg').reg)
  \/ \E h \in Alive(reg) : dependsOn(reg.heap, h, 1) /\ DoNotify(h)
  \/ \E h \in Alive(reg) : inEdit /\ reg.heap[h].type = "X" /\ DoDispose(h)
  \/ DoNestedEdit
  \/ AbortEdit
  \/ EndEdit

SpecEdit == InitDispose /\ [][NextEdit]_vars

\* a history listening to one free point; callbacks that run inside a
\* conversion or inside _applyDiff call the guarded entry points again
NextGuards ==
  \/ AtRest /\ \E position \in EditPositions : DoEditMove(1, position)
  \/ AtRest /\ DoFlush
  \/ (AtRest \/ hist.isApplyingDiff) /\ DoUndo
  \/ (AtRest \/ hist.isApplyingDiff) /\ DoRedo
  \/ EnterRecordify
  \/ \E thrown \in BOOLEAN : LeaveRecordify(thrown)
  \/ EnterDerecordify
  \/ \E thrown \in BOOLEAN : LeaveDerecordify(thrown)
  \/ EnterApplyDiff
  \/ \E thrown \in BOOLEAN : LeaveApplyDiff(thrown)

SpecGuards == InitGuards /\ [][NextGuards]_vars

\* lines and circles are drawn through pairs of points of the scene,
\* primitives are grabbed, and the dragger is dragged inside edits while
\* the free points stay on their tracks
NextDrag ==
  \/ \E pair \in DragPairs :
        ~inEdit /\ DoCreateLine(MaxDrag, pair[1], pair[2])
  \/ \E pair \in CirclePairs :
        ~inEdit /\ DoCreateCircle(MaxDrag, pair[1], pair[2])
  \/ \E h \in Alive(reg), grabPosition \in GrabPositions :
        DoTryDrag(h, grabPosition)
  \/ BeginEdit
  \/ \E position \in GridPositions :
        /\ DoDragTo(position)
        /\ \A p \in DOMAIN DragTracks :
             reg'.heap[p].position \in DragTracks[p]
  \/ EndEdit

SpecDrag == InitDrag /\ [][NextDrag]_vars

\* two circles are cut at approximate positions and their edge points moved
NextTwoCircles ==
  \/ \E c0, c1 \in Alive(reg), position \in ApproximatePositions :
        DoIntersectCircles(MaxTwoCircles, c0, c1, position)
  \/ \E p \in DOMAIN TwoCircleTracks : \E position \in TwoCircleTracks[p] :
        DoEditMove(p, position) /\ ExactCircles(reg')

SpecTwoCircles == InitTwoCircles /\ [][NextTwoCircles]_vars

\* points and lines through the second point are created, primitives are
\* disposed one by one and the first point is moved under a listening history, and the changes are flushed into the
\* first entry of the log
NextLineage ==
  \/ DoCreatePoint(MaxLineage, [x |-> 2, y |-> 2])
  \/ \E p1 \in Alive(reg) : DoCreateLine(MaxLineage, 2, p1)
  \/ \E position \in EditPositions : DoEditMove(1, position)
  \/ \E h \in Alive(reg) : DoDispose(h)
  \/ hist.diffs = <<>> /\ DoFlush

SpecLineage == InitLineage /\ [][NextLineage]_vars

\* a line and a circle whose intersection points come and go as the centre
\* moves, recordified between the edits
NextSnapshot ==
  \/ \E c0, c1 \in Alive(reg), position \in GridPositions :
        DoIntersectCircle(MaxCircle, c0, c1, position)
  \/ \E p \in DOMAIN CircleTracks : \E position \in CircleTracks[p] :
        DoEditMove(p, position) /\ ExactScene(reg')
  \/ DoRecordify

SpecSnapshot == InitCircle /\ [][NextSnapshot]_vars

\* free points created and disposed between traversals of the registry, some
\* of them left early
NextTraversal ==
  \/ DoCreatePoint(MaxTraversal, [x |-> 0, y |-> 0])
  \/ \E h \in Alive(reg) : DoDispose(h)
  \/ DoIterate
  \/ \E taken \in 1..MaxTraversal : DoIterateBreak(taken)

SpecTraversal == Init /\ [][NextTraversal]_vars

\* ----------------------------------------------------------------- claims
\* C1: after an edit returns, every alive line has origin = parents[0]'s
\* position and direction = parents[1]'s position - parents[0]'s position,
\* and every alive circle has center = parents[0]'s position, also when the
\* line or circle was created inside the edit between two moves of its parent
C1_DerivedFollowParents ==
  lastOp.name = "edit" =>
    \A h \in Alive(reg) :
      LET o == reg.heap[h]
      IN /\ o.type = "L" =>
              /\ o.origin = reg.heap[o.parents[1]].position
              /\ o.direction = span(reg.heap[o.parents[1]].position,
                                    reg.heap[o.parents[2]].position)
         /\ o.type = "O" => o.center = reg.heap[o.parents[1]].position

C4_SmallestUnusedId ==
  lastOp.name \in {"createPoint", "createLine", "createCircle"} =>
    LET h == Len(reg.heap)
        used == {reg.heap[k].id : k \in Alive(reg) \ {h}}
    IN reg.heap[h].id = CHOOSE n \in 1..(Cardinality(used) + 1) :
                          /\ n \notin used
                          /\ \A m \in 1..(n - 1) : m \in used

C3_UndoRedoRestores ==
  [][(lastOp.name = "undo" /\ lastOp.a = 1 /\ lastOp'.name = "redo") =>
       (fault = "none" /\ fault' = "none" /\ Scene(reg') = snap)]_vars

\* C6: a replay that faults leaves the alive primitives as they were before
\* the call; in particular every primitive the pass created is disposed
C6_FaultLeavesRegistryUnchanged ==
  [][(lastOp'.name \in {"undo", "redo"} /\ fault' = "DeserializationError")
       => Scene(reg') = Scene(reg)]_vars

\* C7: recordifying every alive primitive and derecordifying the records into
\* an empty registry succeeds and yields primitives with the same ids,
\* variants, parents and positions
C7_RoundTripReproduces ==
  lastOp.name = "roundTrip" =>
    LET Shape(scene) == {[id |-> l.id, type |-> l.type,
                          parents |-> l.parents, position |-> l.position] :
                           l \in scene}
    IN fault = "none" /\ Shape(Scene(reg)) = Shape(saved.scene)

\* C8: a flush that appends a diff while redoable entries exist drops those
\* entries: the log is the applied prefix followed by the new diff,
\* latestDiffIndex points at that last entry, and a tryRedo right after the
\* flush changes nothing
C8_FlushDropsRedoBranch ==
  [][/\ (lastOp'.name = "flush" /\ lastOp'.a = 1
           /\ hist.latestDiffIndex + 1 < Len(hist.diffs)) =>
          /\ Len(hist'.diffs) = hist.latestDiffIndex + 2
          /\ hist'.latestDiffIndex = Len(hist'.diffs) - 1
          /\ SubSeq(hist'.diffs, 1, hist.latestDiffIndex + 1)
               = SubSeq(hist.diffs, 1, hist.latestDiffIndex + 1)
     /\ (lastOp.name = "flush" /\ lastOp.a = 1 /\ lastOp.b > 0
           /\ lastOp'.name = "redo") =>
          /\ lastOp'.a = 0 /\ fault' = "none"
          /\ reg' = reg /\ hist' = hist]_vars

\* C8 witness: a flush appended a diff and dropped a redoable entry
C8_Witness ==
  lastOp.name = "flush" /\ lastOp.a = 1 /\ lastOp.b > 0 /\ fault = "none"

\* C9: a flush when no primitive has a net change since the last flush (every
\* tracked primitive is alive with the fields of its before-record, every
\* primitive created since is disposed again) appends nothing to the log and
\* leaves latestDiffIndex as it was
C9_NoNetChangeNoEntry ==
  [][(/\ lastOp'.name = "flush"
      /\ \A i \in 1..Len(hist.trackedPrimitives) :
           LET h == hist.trackedPrimitives[i]
           IN /\ ~reg.heap[h].isDisposed
              /\ \E k \in 1..Len(hist.befores) :
                   /\ Val(hist.befores[k], "id") = reg.heap[h].id
                   /\ Val(hist.befores[k], "position")
                        = reg.heap[h].position
      /\ \A i \in 1..Len(hist.newPrimitives) :
           reg.heap[hist.newPrimitives[i]].isDisposed)
       => (hist'.diffs = hist.diffs
           /\ hist'.latestDiffIndex = hist.latestDiffIndex)]_vars

\* C9 witness: a flush with tracked primitives that appended nothing
C9_Witness ==
  lastOp.name = "flush" /\ lastOp.a = 0 /\ lastOp.c = 1 /\ fault = "none"

\* C10 as stated: tryUndo when latestDiffIndex is -1 changes nothing and
\* raises no fault
C10_UndoAtStartIsNoOp ==
  [][(lastOp'.name = "undo" /\ hist.latestDiffIndex = -1) =>
       (reg' = reg /\ hist' = hist /\ fault' = "none")]_vars

\* C10 amended: tryUndo when latestDiffIndex is -1 changes no primitive, nor
\* the log, nor latestDiffIndex; it raises no fault when no change is pending
\* since the last flush, and a state error when one is
C10_UndoAtStartChangesNothing ==
  [][(lastOp'.name = "undo" /\ hist.latestDiffIndex = -1) =>
       /\ reg' = reg /\ hist' = hist
       /\ fault' = IF hist.newPrimitives = <<>>
                      /\ hist.trackedPrimitives = <<>>
                   THEN "none" ELSE "StateError"]_vars

\* C10 witness: tryUndo ran with every entry of a non-empty log undone
C10_Witness ==
  /\ lastOp.name = "undo" /\ lastOp.a = 0 /\ fault = "none"
  /\ hist.latestDiffIndex = -1 /\ Len(hist.diffs) > 0

\* C11: a replay through tryUndo or tryRedo is not recorded: it leaves no
\* before-snapshot, no tracked primitive and no new primitive in the history
\* bookkeeping, so a flush called right after it appends no log entry
C11_ReplayNotRecorded ==
  (lastOp.name \in {"undo", "redo"} /\ lastOp.a = 1) =>
    /\ hist.befores = <<>>
    /\ hist.trackedPrimitives = <<>>
    /\ hist.newPrimitives = <<>>
    /\ ~hist.isApplyingDiff
    /\ Flush(hist, reg.heap).hist.diffs = hist.diffs
    /\ Flush(hist, reg.heap).hist.latestDiffIndex = hist.latestDiffIndex

\* an undo whose replay changed the scene
C11_Witness ==
  /\ lastOp.name = "undo" /\ lastOp.a = 1
  /\ fault = "none"
  /\ snap # Scene(reg)

\* C12: when tryGetOrCreateIntersectionPoint returned a point and is called
\* again at once with the same two curves, in the same or the opposite order,
\* and an approximate position that resolves to the candidate the point sits
\* on, the second call returns that point with isExisting = true and registers
\* no primitive
C12_SecondCallReturnsExisting ==
  [][(/\ lastOp.name = "intersect" /\ lastOp.a # 0
      /\ lastOp'.name = "intersect"
      /\ {lastOp'.c[1], lastOp'.c[2]} = {lastOp.c[1], lastOp.c[2]}
      /\ Intersection(reg.heap, lastOp'.c[1], lastOp'.c[2],
                      lastOp'.c[3], <<>>).position
           = <<reg.heap[lastOp.a].position>>)
     => (/\ lastOp'.a = lastOp.a
         /\ lastOp'.b = 1
         /\ fault' = "none"
         /\ reg'.heap = reg.heap
         /\ reg'.primitives = reg.primitives)]_vars

\* a call that found the point of an earlier call made with the curves in
\* the opposite order, where the curves cut in two candidates
C12_Witness ==
  /\ lastOp.name = "intersect" /\ lastOp.a # 0 /\ lastOp.b = 1
  /\ reg.heap[lastOp.a].parents = <<lastOp.c[2], lastOp.c[1]>>
  /\ Len(Intersections(reg.heap, lastOp.c[1], lastOp.c[2])) = 2

\* C13: no two alive intersection points have the same unordered pair of
\* parents and equal positions
C13_NoDuplicateIntersectionPoints ==
  \A a, b \in Alive(reg) :
    (/\ a # b
     /\ reg.heap[a].type = "X" /\ reg.heap[b].type = "X"
     /\ Range(reg.heap[a].parents) = Range(reg.heap[b].parents))
    => reg.heap[a].position # reg.heap[b].position

\* C14: a call of tryGetOrCreateIntersectionPoint on two curves that have
\* no geometric intersection returns no point, raises no fault and leaves the
\* registry as it was, also when a point of that pair is on record
C14_NoIntersectionReturnsNothing ==
  [][(/\ lastOp'.name = "intersect"
      /\ Intersections(reg.heap, lastOp'.c[1], lastOp'.c[2]) = <<>>)
     => (lastOp'.a = 0 /\ fault' = "none" /\ reg' = reg)]_vars

\* a call on two curves that no longer meet while an invalid intersection
\* point of theirs is on record
C14_Witness ==
  /\ lastOp.name = "intersect" /\ lastOp.a = 0
  /\ Intersections(reg.heap, lastOp.c[1], lastOp.c[2]) = <<>>
  /\ \E x \in Alive(reg) :
       /\ reg.heap[x].type = "X"
       /\ Range(reg.heap[x].parents) = {lastOp.c[1], lastOp.c[2]}
       /\ reg.heap[x].invalid
       /\ \E k \in DOMAIN reg.intersectionPoints :
            Includes(reg.intersectionPoints[k], x)

\* C15: an intersection point keeps every hint it recorded, at most one per
\* candidate count, and whenever its parents cut in a number of candidates it
\* has a hint for, it is valid and sits on the candidate of the recorded
\* index, whatever its position was and whatever counts it saw in between
C15_HintFixesChoice ==
  /\ [](\A h \in Alive(reg) :
          reg.heap[h].type = "X" =>
            LET o == reg.heap[h]
                all == Intersections(reg.heap, o.parents[1], o.parents[2])
            IN \A i \in 1..Len(o.hints) :
                 o.hints[i][1] = Len(all) =>
                   /\ ~o.invalid
                   /\ o.position = all[o.hints[i][2] + 1])
  /\ [][\A h \in 1..Len(reg.heap) :
          reg.heap[h].type = "X" =>
            /\ SubSeq(reg'.heap[h].hints, 1, Len(reg.heap[h].hints))
                 = reg.heap[h].hints
            /\ \A i, j \in 1..Len(reg'.heap[h].hints) :
                 reg'.heap[h].hints[i][1] = reg'.heap[h].hints[j][1] => i = j
     ]_vars

\* an edit applied the constraints of a point that holds a hint while its
\* parents cut in two candidates
C15_Witness ==
  /\ lastOp.name = "edit"
  /\ \E h \in Alive(reg) :
       /\ reg.heap[h].type = "X"
       /\ Includes(applied, h)
       /\ reg.heap[h].hints # <<>>
       /\ Len(Intersections(reg.heap, reg.heap[h].parents[1],
                            reg.heap[h].parents[2])) = 2

\* C16: when an edit applies the constraints of an intersection point whose
\* parents have no intersection, the point becomes invalid and keeps its
\* position and its hints; when they have one, the point becomes valid and
\* sits on the selected candidate: the one a hint for the candidate count
\* names, else one closest to the position the point had
C16_ApplyConstraintsOfIntersection ==
  [][lastOp'.name = "edit" =>
       \A h \in Range(applied') :
         reg.heap[h].type = "X" =>
           LET old == reg.heap[h]
               new == reg'.heap[h]
               all == Intersections(reg'.heap, old.parents[1],
                                    old.parents[2])
               hinted == {i \in 1..Len(old.hints) :
                            old.hints[i][1] = Len(all)}
           IN IF all = <<>>
              THEN /\ new.invalid
                   /\ new.position = old.position
                   /\ new.hints = old.hints
              ELSE /\ ~new.invalid
                   /\ new.position \in Range(all)
                   /\ hinted # {} =>
                        \A i \in hinted :
                          new.position = all[old.hints[i][2] + 1]
                   /\ hinted = {} =>
                        \A c \in Range(all) :
                          distSq(new.position, old.position)
                            <= distSq(c, old.position)]_vars

\* an edit left an intersection point that holds a hint invalid, on the
\* position it had
C16_Witness ==
  /\ lastOp.name = "edit"
  /\ \E h \in Alive(reg) :
       /\ reg.heap[h].type = "X"
       /\ Includes(applied, h)
       /\ reg.heap[h].invalid
       /\ reg.heap[h].hints # <<>>
       /\ Intersections(reg.heap, reg.heap[h].parents[1],
                        reg.heap[h].parents[2]) = <<>>

\* C17: the level of every primitive is 0 when it has no parents and
\* otherwise one more than the largest level among its parents, and no step
\* changes the level of a primitive
C17_LevelFromParents ==
  /\ [](\A h \in 1..Len(reg.heap) :
          LET o == reg.heap[h]
          IN IF o.parents = <<>> THEN o.level = 0
             ELSE /\ \A i \in 1..Len(o.parents) :
                       o.level >= reg.heap[o.parents[i]].level + 1
                  /\ \E i \in 1..Len(o.parents) :
                       o.level = reg.heap[o.parents[i]].level + 1)
  /\ [][\A h \in 1..Len(reg.heap) :
          reg'.heap[h].level = reg.heap[h].level]_vars

\* a line through a free point and an intersection point of two lines, in
\* that order: its parents have levels 0 and 2
C17_Witness ==
  \E h \in Alive(reg) :
    /\ reg.heap[h].type = "L"
    /\ reg.heap[reg.heap[h].parents[1]].type = "P"
    /\ reg.heap[reg.heap[h].parents[2]].type = "X"
    /\ reg.heap[h].level = 3

\* C18: a dispose() that returns has disposed a primitive without children;
\* a dispose() on a primitive that has a child faults and leaves the registry
\* as it was: the primitive alive, the children lists, the list iterated and
\* the index of intersection points
C18_DisposeWithChildFaults ==
  [][lastOp'.name = "dispose" =>
       IF fault' = "none"
       THEN \E h \in Alive(reg) :
              /\ reg.heap[h].children = <<>>
              /\ Alive(reg') = Alive(reg) \ {h}
       ELSE reg' = reg]_vars

\* a dispose() faulted while a curve with an intersection point on it, held
\* in the index, is alive
C18_Witness ==
  /\ lastOp.name = "dispose" /\ fault = "Error"
  /\ \E h \in Alive(reg) :
       /\ IsCurve(reg.heap[h])
       /\ \E x \in Range(reg.heap[h].children) :
            /\ reg.heap[x].type = "X"
            /\ \E k \in DOMAIN reg.intersectionPoints :
                 Includes(reg.intersectionPoints[k], x)

\* C19: Primitives.dispose on a set of alive primitives that holds every
\* alive descendant of its members raises no fault and disposes exactly the
\* members; as each dispose() faults on a primitive with children, every
\* member is disposed after its children
C19_BulkDisposeChildrenFirst ==
  [][(/\ lastOp'.name = "disposeAll"
      /\ lastOp'.a \subseteq Alive(reg)
      /\ HoldsDescendants(reg, lastOp'.a))
     => (/\ fault' = "none"
         /\ LET order == SortByLevelDescending(reg.heap, Ascending(lastOp'.a))
            IN \A i, j \in 1..Len(order) :
                 order[j] \in Range(reg.heap[order[i]].children) => j < i
         /\ Alive(reg') = Alive(reg) \ lastOp'.a
         /\ \A h \in Alive(reg') :
              /\ Range(reg'.heap[h].children)
                   = Range(reg.heap[h].children) \ lastOp'.a
              /\ Look(reg'.heap, h) = Look(reg.heap, h))]_vars

\* a bulk disposal took a free point, a curve on it, an intersection point on
\* the curve and a line through that point, and returned
C19_Witness ==
  /\ lastOp.name = "disposeAll" /\ fault = "none"
  /\ \E p, c, x, l \in lastOp.a :
       /\ reg.heap[p].type = "P" /\ IsCurve(reg.heap[c])
       /\ reg.heap[x].type = "X" /\ reg.heap[l].type = "L"
       /\ p \in Range(reg.heap[c].parents)
       /\ c \in Range(reg.heap[x].parents)
       /\ x \in Range(reg.heap[l].parents)

\* C20: a disposed primitive stays disposed, is in no children list and is
\* not yielded by an iteration over the registry; an alive primitive c is in
\* the children list of p exactly when p is one of the parents of c
C20_DisposedIsDetached ==
  /\ [](/\ \A h \in 1..Len(reg.heap) :
             reg.heap[h].isDisposed =>
               /\ \A p \in 1..Len(reg.heap) :
                    h \notin Range(reg.heap[p].children)
               /\ h \notin Range(Iterate(reg).yielded)
        /\ \A c \in Alive(reg), p \in 1..Len(reg.heap) :
             c \in Range(reg.heap[p].children)
               <=> p \in Range(reg.heap[c].parents))
  /\ [][\A h \in 1..Len(reg.heap) :
          reg.heap[h].isDisposed
            => h <= Len(reg'.heap) /\ reg'.heap[h].isDisposed]_vars

\* an intersection point was disposed while both of its curves are alive,
\* and one of the curves still has another child
C20_Witness ==
  \E h \in 1..Len(reg.heap) :
    /\ reg.heap[h].isDisposed /\ reg.heap[h].type = "X"
    /\ h \in Range(reg.primitives)
    /\ Range(reg.heap[h].parents) \subseteq Alive(reg)
    /\ \E p \in Range(reg.heap[h].parents) : reg.heap[p].children # <<>>

\* C21: the index of intersection points holds no disposed point, so
\* tryGetOrCreateIntersectionPoint returns either a point that was alive
\* before the call, with isExisting, or a newly created one, without
C21_DisposedPointLeavesIndex ==
  /\ [](\A k \in DOMAIN reg.intersectionPoints :
          Range(reg.intersectionPoints[k]) \subseteq Alive(reg))
  /\ [][(lastOp'.name = "intersect" /\ lastOp'.a # 0)
         => /\ lastOp'.a \in Alive(reg')
            /\ IF lastOp'.b = 1
               THEN lastOp'.a \in Alive(reg)
               ELSE lastOp'.a = Len(reg.heap) + 1]_vars

\* the call returned a new point although a disposed point with the same
\* parents lies on the same position
C21_Witness ==
  /\ lastOp.name = "intersect" /\ lastOp.a # 0 /\ lastOp.b = 0
  /\ \E h \in 1..Len(reg.heap) :
       /\ reg.heap[h].isDisposed /\ reg.heap[h].type = "X"
       /\ Range(reg.heap[h].parents) = Range(reg.heap[lastOp.a].parents)
       /\ reg.heap[h].position = reg.heap[lastOp.a].position

\* C22: a call of edit from inside the callback of another edit on the same
\* registry faults, with or without a change reported so far
C22_NestedEditFaults ==
  [][lastOp'.name = "nestedEdit" => fault' # "none"]_vars

\* the primitives of a list that are not disposed
Undisposed(heap, s) == {h \in Range(s) : ~heap[h].isDisposed}

\* C23: when the callback of an edit raises a fault, applyConstraints is
\* still called once on every invalidated primitive that is not disposed,
\* in ascending level order, both lists are emptied and the fault leaves
\* the call; outside an edit both lists are empty
C23_FaultStillPropagatesConstraints ==
  /\ [](~inEdit => /\ reg.changedPrimitives = <<>>
                   /\ reg.invalidatedPrimitives = <<>>)
  /\ [][lastOp'.name = "editFault"
         => /\ fault' # "none"
            /\ ~inEdit'
            /\ Range(applied')
                 = Undisposed(reg.heap, reg.invalidatedPrimitives)
            /\ \A i, j \in 1..Len(applied') :
                 i < j => /\ applied'[i] # applied'[j]
                          /\ reg.heap[applied'[i]].level
                               <= reg.heap[applied'[j]].level
            /\ \A h \in Range(applied') :
                 reg'.heap[h] = ApplyConstraints(reg'.heap, h)[h]
            /\ reg'.changedPrimitives = <<>>
            /\ reg'.invalidatedPrimitives = <<>>]_vars

\* the callback moved a point, an invalidated intersection point was
\* disposed, and the callback raised a fault: the line was brought up to
\* date, the disposed point was passed over
C23_Witness ==
  /\ lastOp.name = "editFault" /\ fault # "none"
  /\ \E l \in Range(applied) : reg.heap[l].type = "L"
  /\ \E x \in 1..Len(reg.heap) :
       /\ reg.heap[x].type = "X" /\ reg.heap[x].isDisposed
       /\ x \notin Range(applied)
       /\ reg.heap[x].position # reg.heap[1].position
  /\ reg.heap[5].origin = reg.heap[1].position
  /\ reg.heap[1].position # [x |-> 0, y |-> 2]

\* the primitives that depend on `h`, without `h`
Descendants(heap, h) ==
  {d \in 1..Len(heap) : d # h /\ dependsOn(heap, d, h)}

\* C30: inside an edit, a change report on a primitive that is in the
\* invalidated list without being in the changed list faults, a report on a
\* primitive with a changed descendant faults, and a report on a changed
\* primitive returns and leaves the registry as it was
C30_ConflictingReportsFault ==
  [][lastOp'.name = "notify"
       => LET h == lastOp'.a
              changed == Range(reg.changedPrimitives)
              invalidated == Range(reg.invalidatedPrimitives)
          IN IF h \in changed THEN fault' = "none" /\ reg' = reg
             ELSE IF h \in invalidated THEN fault' # "none"
             ELSE IF Descendants(reg.heap, h) \cap changed # {}
             THEN fault' # "none"
             ELSE fault' = "none"]_vars

\* C24: a call of tryUndo or tryRedo while _applyDiff is in progress, of
\* derecordify while a derecordify is in progress and of recordify while a
\* recordify is in progress faults with a state error and changes nothing;
\* when the call in progress ends, by return or by fault, its guard is
\* released, and a call made while the guard is released is let in
C24_NestedCallsFault ==
  [][/\ (lastOp'.name \in {"undo", "redo", "applyDiff"}
           /\ hist.isApplyingDiff)
        => fault' = "StateError" /\ hist' = hist /\ reg' = reg
     /\ (lastOp'.name = "derecordify" /\ deserializerPrimitives)
        => /\ fault' = "StateError" /\ deserializerPrimitives'
           /\ reg' = reg
     /\ (lastOp'.name = "recordify" /\ recordifyInProgress)
        => fault' = "StateError" /\ recordifyInProgress'
     /\ lastOp'.name = "applyDiffEnd" => ~hist'.isApplyingDiff
     /\ lastOp'.name = "derecordifyEnd" => ~deserializerPrimitives'
     /\ lastOp'.name = "recordifyEnd" => ~recordifyInProgress'
     /\ (lastOp'.name = "applyDiff" /\ ~hist.isApplyingDiff
           /\ hist.trackedPrimitives = <<>> /\ hist.newPrimitives = <<>>)
        => fault' = "none" /\ hist'.isApplyingDiff
     /\ (lastOp'.name = "derecordify" /\ ~deserializerPrimitives)
        => fault' = "none" /\ deserializerPrimitives'
     /\ (lastOp'.name = "recordify" /\ ~recordifyInProgress)
        => fault' = "none" /\ recordifyInProgress'
     /\ (lastOp'.name \in {"undo", "redo"} /\ ~hist.isApplyingDiff
           /\ hist.trackedPrimitives = <<>> /\ hist.newPrimitives = <<>>)
        => fault' # "StateError" /\ ~hist'.isApplyingDiff]_vars

\* with all three calls in progress, a nested recordify has just faulted
C24_Witness ==
  /\ lastOp = Op("recordify", 1, 0, 0) /\ fault = "StateError"
  /\ recordifyInProgress /\ deserializerPrimitives /\ hist.isApplyingDiff
  /\ hist.diffs # <<>>

\* the primitives `h` is derived from, through any number of parents
RECURSIVE Ancestors(_, _)
Ancestors(heap, h) ==
  LET ps == Range(heap[h].parents)
  IN ps \cup UNION {Ancestors(heap, p) : p \in ps}

\* tryDrag on a line or circle with two free points returns a compound
\* dragger over the draggers of both, and with two intersection points a
\* placeholder that lists both
TwoOrNoneDraggable(heap, h, d, f) ==
  LET p0 == heap[h].parents[1]
      p1 == heap[h].parents[2]
  IN IF heap[p0].type = "P"
     THEN /\ f = "none" /\ d.kind = "Compound" /\ canDrag(d)
          /\ Len(d.draggers) = 2
          /\ d.draggers[1].kind = "FreePoint" /\ d.draggers[1].point = p0
          /\ d.draggers[2].kind = "FreePoint" /\ d.draggers[2].point = p1
     ELSE f = "none" /\ ~canDrag(d) /\ offenses(d) = <<p0, p1>>

C26_TryDragNeverFaults ==
  [][lastOp'.name = "tryDrag"
       => /\ fault' = "none"
          /\ dragger'.kind \in {"FreePoint", "Not", "Compound", "Pivot"}
          /\ dragger'.primitive \in Alive(reg)]_vars

\* C27: tryDrag on an intersection point returns a placeholder with that
\* point as its only offense, and dragTo of the placeholder stores the
\* position in the dragger and leaves registry and history alone
C27_IntersectionPointNotDragged ==
  [][/\ (lastOp'.name = "tryDrag" /\ reg.heap[lastOp'.a].type = "X")
        => /\ fault' = "none" /\ ~canDrag(dragger')
           /\ offenses(dragger') = <<lastOp'.a>>
           /\ dragger'.primitive = lastOp'.a
     /\ (lastOp'.name = "dragTo" /\ reg.heap[dragger.primitive].type = "X")
        => /\ fault' = "none"
           /\ reg' = reg /\ hist' = hist
           /\ dragger' = [dragger EXCEPT !.position = lastOp'.a]]_vars

\* the placeholder of an intersection point was dragged away from where it
\* was grabbed
C27_Witness ==
  /\ lastOp.name = "dragTo" /\ inEdit
  /\ dragger.kind = "Not" /\ reg.heap[dragger.primitive].type = "X"
  /\ dragger.position = lastOp.a
  /\ dragger.position # reg.heap[dragger.primitive].position
  /\ reg.changedPrimitives = <<>>

\* the free points a dragger moves
Dragged(d) ==
  CASE d.kind = "FreePoint" -> {d.point}
    [] d.kind = "Pivot" -> {d.subject}
    [] d.kind = "Compound" -> {d.draggers[1].point, d.draggers[2].point}
    [] OTHER -> {}

\* C28: dragTo changes nothing but the positions of the free points its
\* dragger moves, and these are reported changed; no primitive has its
\* constraints applied before the edit ends, and every invalidated
\* primitive has them applied when it does
C28_DragToLeavesDerivedAlone ==
  [][/\ lastOp'.name = "dragTo"
        => /\ Len(reg'.heap) = Len(reg.heap)
           /\ \A h \in 1..Len(reg.heap) :
                IF h \in Dragged(dragger)
                THEN /\ [reg'.heap[h] EXCEPT !.position =
                           reg.heap[h].position] = reg.heap[h]
                     /\ (reg'.heap[h].position # reg.heap[h].position)
                          => h \in Range(reg'.changedPrimitives)
                ELSE reg'.heap[h] = reg.heap[h]
           /\ applied' = applied
           /\ reg'.primitives = reg.primitives
           /\ reg'.intersectionPoints = reg.intersectionPoints
     /\ lastOp'.name = "edit"
        => /\ Range(applied') = Range(reg.invalidatedPrimitives)
           /\ \A h \in Range(applied') :
                reg'.heap[h] = ApplyConstraints(reg'.heap, h)[h]]_vars

\* the first line was dragged by both of its points and the edit has not
\* ended: the line and the intersection point on it are where they were
C28_Witness ==
  /\ lastOp.name = "dragTo" /\ inEdit /\ fault = "none"
  /\ dragger.kind = "Compound" /\ dragger.primitive = 6
  /\ reg.heap[6].origin # reg.heap[1].position
  /\ reg.heap[9].position = reg.heap[6].origin
  /\ Range(reg.changedPrimitives) = {1, 2}
  /\ {6, 9, 10} \subseteq Range(reg.invalidatedPrimitives)

\* circles 5 and 6 have radius 5 and centres (0, 0) and (8, 0)
RadiusFiveEightApart(heap) ==
  /\ heap[5].center = vec2(0, 0) /\ heap[5].radiusSq = 2500
  /\ heap[6].center = vec2(80, 0) /\ heap[6].radiusSq = 2500

\* the results of the last tryGetOrCreateIntersectionPoint are agreed on
PointsOfPair(r, c0, c1) ==
  {h \in Alive(r) : /\ r.heap[h].type = "X"
                    /\ Range(r.heap[h].parents) = {c0, c1}}

\* C29: two circles of radius 5 around (0, 0) and (8, 0) meet in (4, 3) and
\* (4, -3) and nowhere else; tryGetOrCreateIntersectionPoint near (4, 3.9)
\* returns the point at (4, 3) and near (4, -3.9) the point at (4, -3), and
\* at equal distance from both the first one found; the point is a new
\* primitive with isExisting false unless a point of the two circles was
\* there already
C29_TwoCirclesMeetTwice ==
  [][(lastOp'.name = "intersect" /\ RadiusFiveEightApart(reg.heap))
       => LET c0 == lastOp'.c[1]
              c1 == lastOp'.c[2]
              approximatePosition == lastOp'.c[3]
              point == lastOp'.a
              expected ==
                IF approximatePosition.y > 0 THEN vec2(40, 30)
                ELSE IF approximatePosition.y < 0 THEN vec2(40, -30)
                ELSE Intersections(reg.heap, c0, c1)[1]
              there == {h \in PointsOfPair(reg, c0, c1) :
                          reg.heap[h].position = expected}
          IN /\ Range(Intersections(reg.heap, c0, c1))
                  = {vec2(40, 30), vec2(40, -30)}
             /\ Len(Intersections(reg.heap, c0, c1)) = 2
             /\ fault' = "none"
             /\ point \in Alive(reg')
             /\ reg'.heap[point].position = expected
             /\ IF there = {}
                THEN lastOp'.b = 0 /\ point \notin 1..Len(reg.heap)
                ELSE lastOp'.b = 1 /\ point \in there]_vars

\* the two circles were cut near (4, 3.9) and then near (4, -3.9): the
\* second call made a second point
C29_Witness ==
  /\ lastOp.name = "intersect" /\ lastOp.b = 0 /\ lastOp.a = 8
  /\ lastOp.c = <<5, 6, [x |-> 40, y |-> -39]>>
  /\ RadiusFiveEightApart(reg.heap)
  /\ reg.heap[7].type = "X" /\ reg.heap[7].position = vec2(40, 30)
  /\ reg.heap[8].type = "X" /\ reg.heap[8].position = vec2(40, -30)
  /\ ~reg.heap[7].isDisposed /\ ~reg.heap[8].isDisposed

\* the ids the full record of `id` in either list of `diff` names as parents
ParentIdsIn(diff, id) ==
  LET all == diff.forward \o diff.backward
      full == {k \in 1..Len(all) : /\ Val(all[k], "id") = id
                                   /\ Defined(all[k], "type")
                                   /\ Defined(all[k], "parents")}
  IN UNION {Range(Val(all[k], "parents")) : k \in full}

\* replayed front to back, `records` disposes no parent before its child and
\* creates no child before its parent
ReplaysInDependencyOrder(diff, records) ==
  \A i, j \in 1..Len(records) :
    i < j =>
      /\ (Truthy(records[i], "disposed") /\ Truthy(records[j], "disposed"))
           => Val(records[i], "id")
                \notin ParentIdsIn(diff, Val(records[j], "id"))
      /\ (Defined(records[i], "type") /\ Defined(records[j], "type"))
           => Val(records[j], "id")
                \notin ParentIdsIn(diff, Val(records[i], "id"))

\* C31: in every diff of the log, the forward list and the backward list
\* each dispose every child before its parent and create every parent
\* before its child when replayed front to back
C31_DiffsReplayInDependencyOrder ==
  \A k \in 1..Len(hist.diffs) :
    /\ ReplaysInDependencyOrder(hist.diffs[k], hist.diffs[k].forward)
    /\ ReplaysInDependencyOrder(hist.diffs[k], hist.diffs[k].backward)

\* the records of `records` that carry the id `id`
RecordsOf(records, id) ==
  SelectSeq(records, LAMBDA rec : Val(rec, "id") = id)

DisposalRecord(id) == ("id" :> <<id>>) @@ ("disposed" :> <<TRUE>>)

\* the after records History.flush hands to mutualDiff
AftersOf(hs, heap) ==
  Recordify(heap, hs.trackedPrimitives \o hs.newPrimitives, TRUE,
            <<>>).records

\* the diff a flush step appended, with two empty lists when it appended
\* nothing
Appended(before, after) ==
  IF after.latestDiffIndex # before.latestDiffIndex
  THEN after.diffs[after.latestDiffIndex + 1]
  ELSE [forward |-> <<>>, backward |-> <<>>]

\* C32: the diff of a flush holds, for an id only in the after records, the
\* after record forward and a disposal record backward; for an id only in
\* the before records, a disposal record forward and the before record
\* backward; for an id in both, one partial record each way with the id and
\* exactly the fields other than type and parents that differ, after values
\* forward and before values backward, and none when no field differs; no
\* diff is appended when both lists are empty
C32_MutualDiffPerId ==
  [][(lastOp'.name = "flush" /\ fault' = "none")
       => LET befores == hist.befores
              afters == AftersOf(hist, reg.heap)
              diff == Appended(hist, hist')
              ids == Range(Ids(befores)) \cup Range(Ids(afters))
              Partial(id, from, K) ==
                ("id" :> <<id>>) @@ [k \in K |-> Get(from, k, <<>>)]
              Both(id, b, a) ==
                LET K == {k \in ((DOMAIN b) \cup (DOMAIN a))
                                  \ {"id", "type", "parents"} :
                            Get(b, k, <<>>) # Get(a, k, <<>>)}
                IN IF K = {}
                   THEN /\ RecordsOf(diff.forward, id) = <<>>
                        /\ RecordsOf(diff.backward, id) = <<>>
                   ELSE /\ RecordsOf(diff.forward, id) = <<Partial(id, a, K)>>
                        /\ RecordsOf(diff.backward, id) = <<Partial(id, b, K)>>
          IN /\ \A id \in ids :
                  IF id \notin Range(Ids(befores))
                  THEN /\ RecordsOf(diff.forward, id) = RecordsOf(afters, id)
                       /\ RecordsOf(diff.backward, id) = <<DisposalRecord(id)>>
                  ELSE IF id \notin Range(Ids(afters))
                  THEN /\ RecordsOf(diff.forward, id) = <<DisposalRecord(id)>>
                       /\ RecordsOf(diff.backward, id) = RecordsOf(befores, id)
                  ELSE Both(id, ById(befores, id), ById(afters, id))
             /\ Range(Ids(diff.forward)) \subseteq ids
             /\ Range(Ids(diff.backward)) \subseteq ids
             /\ (diff.forward = <<>> /\ diff.backward = <<>>)
                  <=> hist'.diffs = hist.diffs]_vars

\* a flush appended a diff that creates a primitive, disposes one and moves
\* another
C32_Witness ==
  /\ lastOp.name = "flush" /\ lastOp.a = 1 /\ fault = "none"
  /\ LET d == hist.diffs[hist.latestDiffIndex + 1]
     IN /\ \E i \in 1..Len(d.forward) : Defined(d.forward[i], "type")
        /\ \E i \in 1..Len(d.forward) : Truthy(d.forward[i], "disposed")
        /\ \E i \in 1..Len(d.forward) :
             /\ ~Has(d.forward[i], "type") /\ ~Has(d.forward[i], "disposed")
             /\ Defined(d.forward[i], "position")

\* latestDiffIndex points into the log or is -1
IndexInLog(hs) ==
  -1 <= hs.latestDiffIndex /\ hs.latestDiffIndex <= Len(hs.diffs) - 1

\* no change was recorded since the last flush
NothingPending(hs) == hs.trackedPrimitives = <<>> /\ hs.newPrimitives = <<>>

\* C33 as stated: latestDiffIndex stays between -1 and the last index of the
\* log; every tryUndo with latestDiffIndex >= 0 lowers it by one and every
\* tryRedo with a later entry raises it by one, neither changes the length
\* of the log, and a flush that appends leaves it at the last entry
C33_IndexMovesByOne ==
  [][/\ IndexInLog(hist) /\ IndexInLog(hist')
     /\ lastOp'.name = "undo"
          => /\ Len(hist'.diffs) = Len(hist.diffs)
             /\ hist.latestDiffIndex >= 0
                  => hist'.latestDiffIndex = hist.latestDiffIndex - 1
     /\ lastOp'.name = "redo"
          => /\ Len(hist'.diffs) = Len(hist.diffs)
             /\ hist.latestDiffIndex < Len(hist.diffs) - 1
                  => hist'.latestDiffIndex = hist.latestDiffIndex + 1
     /\ (lastOp'.name = "flush" /\ hist'.diffs # hist.diffs)
          => hist'.latestDiffIndex = Len(hist'.diffs) - 1]_vars

\* C33, amended: the same, for the calls of tryUndo and tryRedo made while
\* no change is pending since the last flush; a call made while a change is
\* pending leaves latestDiffIndex and the log as they are
C33_IndexMovesByOneUnlessPending ==
  [][/\ IndexInLog(hist) /\ IndexInLog(hist')
     /\ lastOp'.name = "undo"
          => /\ hist'.diffs = hist.diffs
             /\ hist'.latestDiffIndex =
                  IF NothingPending(hist) /\ hist.latestDiffIndex >= 0
                  THEN hist.latestDiffIndex - 1 ELSE hist.latestDiffIndex
     /\ lastOp'.name = "redo"
          => /\ hist'.diffs = hist.diffs
             /\ hist'.latestDiffIndex =
                  IF /\ NothingPending(hist)
                     /\ hist.latestDiffIndex < Len(hist.diffs) - 1
                  THEN hist.latestDiffIndex + 1 ELSE hist.latestDiffIndex
     /\ (lastOp'.name = "flush" /\ hist'.diffs # hist.diffs)
          => hist'.latestDiffIndex = Len(hist'.diffs) - 1]_vars

\* the only entry of the log was undone
C33_Witness ==
  /\ lastOp.name = "undo" /\ lastOp.a = 1
  /\ Len(hist.diffs) = 1 /\ hist.latestDiffIndex = -1

\* C34: a tryUndo or tryRedo made while a tracked or a new primitive is
\* pending since the last flush raises a state error and leaves
\* latestDiffIndex, the log, the pending bookkeeping and every primitive as
\* they were
C34_PendingChangesRejectReplay ==
  [][(lastOp'.name \in {"undo", "redo"} /\ ~NothingPending(hist))
       => /\ fault' = "StateError"
          /\ lastOp'.a = 0
          /\ hist' = hist
          /\ reg'.heap = reg.heap]_vars

\* a replay was refused although the log held a diff to undo and one pending
\* change of each kind
C34_Witness ==
  /\ lastOp.name \in {"undo", "redo"} /\ fault = "StateError"
  /\ hist.latestDiffIndex >= 0
  /\ hist.trackedPrimitives # <<>> /\ hist.newPrimitives # <<>>

\* C35: in the diff of a flush a primitive created since the previous flush
\* and disposed by now has no record in either direction, and one created
\* since the previous flush and alive, moved or not, has exactly one record
\* forward, the creating record of its state at the flush, and exactly one
\* record backward, its disposal
C35_NewPrimitivesInDiff ==
  [][(lastOp'.name = "flush" /\ fault' = "none")
       => LET diff == Appended(hist, hist')
              Creating(o) ==
                ("id" :> <<o.id>>) @@ ("type" :> <<"P">>)
                  @@ ("position" :> <<o.position>>)
          IN \A h \in Range(hist.newPrimitives) :
               IF reg.heap[h].isDisposed
               THEN /\ RecordsOf(diff.forward, reg.heap[h].id) = <<>>
                    /\ RecordsOf(diff.backward, reg.heap[h].id) = <<>>
               ELSE /\ RecordsOf(diff.forward, reg.heap[h].id)
                         = <<Creating(reg.heap[h])>>
                    /\ RecordsOf(diff.backward, reg.heap[h].id)
                         = <<DisposalRecord(reg.heap[h].id)>>]_vars

\* a flush appended a diff that creates one primitive and has no record of
\* the other one, which was created and disposed before the flush
C35_Witness ==
  /\ lastOp.name = "flush" /\ lastOp.a = 1 /\ fault = "none"
  /\ Len(hist.diffs) = 1 /\ Len(reg.heap) = 2
  /\ \E h \in 1..2 :
       /\ reg.heap[h].isDisposed
       /\ RecordsOf(hist.diffs[1].forward, reg.heap[h].id) = <<>>
       /\ RecordsOf(hist.diffs[1].backward, reg.heap[h].id) = <<>>
       /\ \E g \in 1..2 :
            /\ ~reg.heap[g].isDisposed
            /\ Len(RecordsOf(hist.diffs[1].forward, reg.heap[g].id)) = 1
            /\ Has(hist.diffs[1].forward[1], "type")

\* the alive primitives in the order of their creation
AliveInCreationOrder(r) ==
  SelectSeq([h \in 1..Len(r.heap) |-> h], LAMBDA h : ~r.heap[h].isDisposed)

\* C36: a traversal that ran to its end yielded every alive primitive once,
\* no disposed one, in creation order, whatever creations, disposals and
\* traversals, left early or not, came before it
C36_TraversalYieldsAliveOnce ==
  lastOp.name = "iterate" => saved.yielded = AliveInCreationOrder(reg)

\* the primitives reached from `h` over one or more children edges
RECURSIVE ReachedOverChildren(_, _)
ReachedOverChildren(heap, h) ==
  LET cs == Range(heap[h].children)
  IN cs \cup UNION {ReachedOverChildren(heap, c) : c \in cs}

\* C37: a.dependsOn(b) is true exactly when a is b or a is reached from b
\* over children edges; the cut at the level of a loses no path
C37_DependsOnIsReachability ==
  \A b \in 1..Len(reg.heap) :
    {a \in 1..Len(reg.heap) : dependsOn(reg.heap, a, b)}
      = {b} \cup ReachedOverChildren(reg.heap, b)

\* a primitive is reached from another one only over two or more edges,
\* while the walk towards it meets a primitive of its own level that it does
\* not expand, and a primitive of a higher level depends on neither
C37_Witness ==
  \E a, b, d \in 1..Len(reg.heap) :
    /\ a \in ReachedOverChildren(reg.heap, b)
    /\ a \notin Range(reg.heap[b].children)
    /\ dependsOn(reg.heap, a, b)
    /\ d \in ReachedOverChildren(reg.heap, b) /\ d # a
    /\ reg.heap[d].level >= reg.heap[a].level
    /\ reg.heap[d].children # <<>>
    /\ ~dependsOn(reg.heap, a, d)

\* C38: a record made by recordify carries invalid: true exactly when the
\* invalid flag of its primitive, as applyConstraints set it through
\* setInvalid, is true
C38_RecordCarriesInvalidFlag ==
  lastOp.name = "recordify"
    => \A h \in Alive(reg) :
         /\ Len(RecordsOf(saved.records, reg.heap[h].id)) = 1
         /\ Truthy(RecordsOf(saved.records, reg.heap[h].id)[1], "invalid")
              <=> Get(reg.heap[h], "invalid", FALSE)

\* the lists of the registry inside (`open`) and outside a transaction
ListsInOrder(r, open) ==
  IF open
  THEN /\ Range(r.changedPrimitives) \subseteq Range(r.invalidatedPrimitives)
       /\ NoDuplicates(r.invalidatedPrimitives)
  ELSE r.changedPrimitives = <<>> /\ r.invalidatedPrimitives = <<>>

\* C39: inside an edit the changed list is a subset of the invalidated list
\* and the invalidated list has no duplicates; a primitive enters the
\* invalidated list together with every child it has at that time; the end
\* of an edit calls applyConstraints at most once per primitive; outside an
\* edit both lists are empty
C39_InvalidatedListClosed ==
  [][/\ ListsInOrder(reg, inEdit) /\ ListsInOrder(reg', inEdit')
     /\ \A m \in Range(reg'.invalidatedPrimitives)
                 \ Range(reg.invalidatedPrimitives) :
          Range(reg.heap[m].children)
            \subseteq Range(reg'.invalidatedPrimitives)
     /\ lastOp'.name \in {"edit", "editFault", "nestedEdit"}
          => NoDuplicates(applied')]_vars

\* inside an edit two primitives were reported changed, and the invalidated
\* list holds them with descendants that were not reported
C39_Witness ==
  /\ inEdit /\ lastOp.name = "notify" /\ fault = "none"
  /\ Len(reg.changedPrimitives) >= 2
  /\ Len(reg.invalidatedPrimitives) > Len(reg.changedPrimitives)
  /\ \E m \in Range(reg.changedPrimitives) : reg.heap[m].children # <<>>

\* the key is the same for both orders of a pair, and two pairs of ids in
\* 1..65535 with the same key are the same unordered pair
PairKeyIsOfUnorderedPair ==
  \A a, b, c, d \in PairIds :
    /\ primitivePairIdOf(a, b) = primitivePairIdOf(b, a)
    /\ primitivePairIdOf(a, b) = primitivePairIdOf(c, d) => {a, b} = {c, d}

\* C40: the key of a parent pair does not depend on the order of the two
\* and tells the unordered pairs of ids in 1..65535 apart; every list of
\* the index of intersection points is non-empty and holds only alive
\* intersection points whose parents have the key of the list, each once
C40_IndexKeyedByUnorderedPair ==
  /\ PairKeyIsOfUnorderedPair
  /\ \A key \in DOMAIN reg.intersectionPoints :
       /\ reg.intersectionPoints[key] # <<>>
       /\ NoDuplicates(reg.intersectionPoints[key])
       /\ \A x \in Range(reg.intersectionPoints[key]) :
            /\ reg.heap[x].type = "X"
            /\ ~reg.heap[x].isDisposed
            /\ \E lo, hi \in 1..Len(reg.heap) :
                 /\ reg.heap[lo].id < reg.heap[hi].id
                 /\ {lo, hi} = Range(reg.heap[x].parents)
                 /\ key = reg.heap[lo].id * 65536 + reg.heap[hi].id

\* the index holds the list of one pair of curves, with an intersection
\* point created after another one of the pair was disposed and taken out
C40_Witness ==
  \E key \in DOMAIN reg.intersectionPoints :
    \E x \in Range(reg.intersectionPoints[key]), y \in 1..Len(reg.heap) :
      /\ reg.heap[y].type = "X" /\ reg.heap[y].isDisposed
      /\ y < x
      /\ Range(reg.heap[y].parents) = Range(reg.heap[x].parents)

====
